---- MODULE Spec2Model ----
(***************************************************************************)
(* Verification model of coredrain: the EVM matcher pool                   *)
(* (src/services/evm-matcher.ts), the finder (src/services/finder.ts), the *)
(* transfer store (src/models/transfer.ts) and the system-tx anchor store  *)
(* (models/system-tx.ts, concatenated into src/services/finder.ts).        *)
(*                                                                         *)
(* Times are milliseconds relative to the seed anchor's time               *)
(* (1739849780000 in the source), so that they fit the checker's integers. *)
(***************************************************************************)
EXTENDS Integers, Sequences, FiniteSets, TLC

(***************************************************************************)
(* Bounds of the model.  The pool sizes of the source (256 workers, a      *)
(* queue of 2048, a low watermark of 100, a refill batch of 256, a dedup   *)
(* set trimmed to its newest 5000 entries once it exceeds 10000, a         *)
(* backfill threshold of 10) are scaled down; as in the source the entries *)
(* kept by a trim are at least as many as the queue can hold.  MaxCount is *)
(* the value at which the outcome counters saturate.                       *)
(***************************************************************************)
EVM_MATCHER_CONCURRENCY == 2
QUEUE_CAPACITY == 2
QUEUE_LOW_WATERMARK == 1
EVM_MATCHER_BATCH_SIZE == 2
DEDUP_LIMIT == 2
DEDUP_KEEP == 2
BACKFILL_THRESHOLD == 1
MaxCount == 1

(***************************************************************************)
(* Program constants of the finder.                                        *)
(***************************************************************************)
BATCH_SIZE == 5
MAX_ROUNDS == 20
DB_SEARCH_WINDOW_MS == 120000
DB_SEARCH_BEFORE_MS == 5000
DEFAULT_MS_PER_BLOCK == 1000
SEED_ANCHOR == [block |-> 1, time |-> 0]

(***************************************************************************)
(* Values.  A nullable field holds Null or Some(v).                        *)
(***************************************************************************)
Null == [isNull |-> TRUE]
Some(v) == [isNull |-> FALSE, val |-> v]

Max(a, b) == IF a >= b THEN a ELSE b
Min(a, b) == IF a <= b THEN a ELSE b

RECURSIVE Pow10(_)
Pow10(n) == IF n = 0 THEN 1 ELSE 10 * Pow10(n - 1)

\* Math.round(n / d): the nearest integer, halves towards +infinity.
MathRound(n, d) ==
    IF d > 0 THEN (2 * n + d) \div (2 * d)
    ELSE (2 * (0 - n) + (0 - d)) \div (2 * (0 - d))

(***************************************************************************)
(* Addresses are hex strings compared case-insensitively by the code: an   *)
(* address is its lower-case text and whether it was written with upper-   *)
(* case (checksummed) digits.                                              *)
(***************************************************************************)
Addr(text, upper) == [text |-> text, upper |-> upper]

normalizeAddress(addr) == [addr EXCEPT !.upper = FALSE]

HYPE_SYSTEM_ADDRESS == Addr("0x2222", FALSE)
SPOT_SYSTEM_ADDRESS == Addr("0x2000005", FALSE)
UNKNOWN_SYSTEM_ADDRESS == Addr("0x2000fff", FALSE)
USER_A == Addr("0xaaaa", FALSE)
USER_B == Addr("0xbbbb", FALSE)

(***************************************************************************)
(* Asset cache: system address -> evmDecimals (18 for the native token in  *)
(* the source; scaled so that amounts stay small).                         *)
(***************************************************************************)
AssetDecimals == [hype |-> 2, spot |-> 1, fallback |-> 2]

getAssetBySystemAddress(systemAddress) ==
    LET a == normalizeAddress(systemAddress) IN
    IF a = HYPE_SYSTEM_ADDRESS THEN Some(AssetDecimals.hype)
    ELSE IF a = SPOT_SYSTEM_ADDRESS THEN Some(AssetDecimals.spot)
    ELSE Null

\* asset?.evmDecimals ?? 18
EvmDecimalsOf(systemAddress) ==
    LET asset == getAssetBySystemAddress(systemAddress) IN
    IF asset = Null THEN AssetDecimals.fallback ELSE asset.val

(***************************************************************************)
(* A human-readable amount "i.f" is the pair (digits, frac): the decimal   *)
(* digits without the point and the number of digits after the point.      *)
(* parseAmount scales it to smallest units and rounds excess digits.       *)
(***************************************************************************)
Amount(digits, frac) == [digits |-> digits, frac |-> frac]

parseAmount(amount, decimals) ==
    IF amount.frac <= decimals
    THEN amount.digits * Pow10(decimals - amount.frac)
    ELSE MathRound(amount.digits, Pow10(amount.frac - decimals))

(***************************************************************************)
(* The EVM chain as the fetchers see it.  chain[n] is block n; a system tx *)
(* is already normalised by the fetcher (strategies/types.ts SystemTx).    *)
(***************************************************************************)
Range(seq) == { seq[i] : i \in 1..Len(seq) }

SystemTx(hash, from, assetRecipient, amountWei, contractAddress) ==
    [hash |-> hash, explorerHash |-> <<"explorer", hash>>, from |-> from,
     assetRecipient |-> assetRecipient, amountWei |-> amountWei,
     contractAddress |-> contractAddress]

BlockData(number, timestamp, systemTxs) ==
    [number |-> number, hash |-> <<"block", number>>, timestamp |-> timestamp,
     systemTxs |-> systemTxs]

(***************************************************************************)
(* Anchor store (collection system_txs, unique index on hash).             *)
(***************************************************************************)
\* The documents storeBlocksSystemTxs builds for one block.
BlockDocs(block) ==
    { [hash |-> tx.hash, explorerHash |-> tx.explorerHash,
       blockNumber |-> block.number, blockHash |-> block.hash,
       blockTimestamp |-> block.timestamp,
       from |-> normalizeAddress(tx.from),
       assetRecipient |-> normalizeAddress(tx.assetRecipient),
       amountWei |-> tx.amountWei,
       contractAddress |-> IF tx.contractAddress = Null THEN Null
                           ELSE Some(normalizeAddress(tx.contractAddress.val))]
      : tx \in Range(block.systemTxs) }

\* insertMany(allDocs, {ordered: false}): a document whose hash is already
\* stored is rejected by the unique index, the others are inserted.
storeBlocksSystemTxs(store, blocks) ==
    LET allDocs == UNION { BlockDocs(b) : b \in blocks }
    IN store \cup { d \in allDocs : \A e \in store : e.hash # d.hash }

\* A findMatchingTx that sorts by blockTimestamp descending.
findMatchingTxLatest(store, params) ==
    LET hits == { d \in store :
                    /\ d.from = normalizeAddress(params.from)
                    /\ d.assetRecipient = normalizeAddress(params.assetRecipient)
                    /\ d.amountWei = params.amountWei
                    /\ d.blockTimestamp >= params.minTime
                    /\ d.blockTimestamp <= params.maxTime }
    IN { d \in hits : \A e \in hits : d.blockTimestamp >= e.blockTimestamp }

\* findOne(match tuple, blockTimestamp in [minTime, maxTime]) sorted by
\* blockTimestamp ascending: the documents the query may return (any of the
\* earliest ones); empty when it returns null.
findMatchingTx(store, params) ==
    LET hits == { d \in store :
                    /\ d.from = normalizeAddress(params.from)
                    /\ d.assetRecipient = normalizeAddress(params.assetRecipient)
                    /\ d.amountWei = params.amountWei
                    /\ d.blockTimestamp >= params.minTime
                    /\ d.blockTimestamp <= params.maxTime }
    IN { d \in hits : \A e \in hits : d.blockTimestamp <= e.blockTimestamp }

BlockAnchor(d) == [blockNumber |-> d.blockNumber, blockTimestamp |-> d.blockTimestamp]

\* The "before" lookup of findBracketingAnchors: closest at or before targetTime.
AnchorsBefore(store, targetTime) ==
    LET c == { d \in store : d.blockTimestamp <= targetTime }
    IN IF c = {} THEN {Null}
       ELSE { BlockAnchor(d) : d \in { x \in c : \A e \in c : x.blockTimestamp >= e.blockTimestamp } }

\* The "after" lookup of findBracketingAnchors: closest after targetTime.
\* A second query with $gte in place of $gt.
AnchorsAfterInclusive(store, targetTime) ==
    LET c == { d \in store : d.blockTimestamp >= targetTime }
    IN IF c = {} THEN {Null}
       ELSE { BlockAnchor(d) : d \in { x \in c : \A e \in c : x.blockTimestamp <= e.blockTimestamp } }

AnchorsAfter(store, targetTime) ==
    LET c == { d \in store : d.blockTimestamp > targetTime }
    IN IF c = {} THEN {Null}
       ELSE { BlockAnchor(d) : d \in { x \in c : \A e \in c : x.blockTimestamp <= e.blockTimestamp } }

(***************************************************************************)
(* Block fetchers (strategies).  net is what the network does to the call: *)
(* "ok", "fail" (timeout / 5xx after retries, or any other failure) or     *)
(* "null" (the RPC node answers null for every block).                     *)
(***************************************************************************)
FetchFailed == [ok |-> FALSE]

SortedBlocks(ch, numbers) ==
    LET present == { n \in numbers : n \in 1..Len(ch) }
        RECURSIVE Asc(_)
        Asc(S) == IF S = {} THEN <<>>
                  ELSE LET m == CHOOSE x \in S : \A y \in S : x <= y
                       IN <<ch[m]>> \o Asc(S \ {m})
    IN Asc(present)

\* RpcFetcherLive.fetchBlocks: a block whose response is null is skipped.
rpcFetchBlocks(ch, blockNumbers, net) ==
    IF net = "fail" THEN FetchFailed
    ELSE IF net = "null" THEN [ok |-> TRUE, blocks |-> <<>>]
    ELSE [ok |-> TRUE, blocks |-> SortedBlocks(ch, Range(blockNumbers))]

\* S3FetcherLive.fetchBlocks: a missing object (HTTP 404) fails the call.
s3FetchBlocks(ch, blockNumbers, net) ==
    IF net # "ok" THEN FetchFailed
    ELSE IF \E n \in Range(blockNumbers) : n \notin 1..Len(ch) THEN FetchFailed
    ELSE [ok |-> TRUE, blocks |-> SortedBlocks(ch, Range(blockNumbers))]

fetchBlocks(fetcher, ch, blockNumbers, net) ==
    IF fetcher = "s3" THEN s3FetchBlocks(ch, blockNumbers, net)
    ELSE rpcFetchBlocks(ch, blockNumbers, net)

(***************************************************************************)
(* Finder (src/services/finder.ts).                                        *)
(***************************************************************************)
interpolate(before, after, targetTime) ==
    LET timeDelta == after.time - before.time
        blockDelta == after.block - before.block
    IN IF blockDelta = 0 \/ timeDelta = 0 THEN before.block
       ELSE Max(1, before.block
                     + MathRound((targetTime - before.time) * blockDelta, timeDelta))

extrapolate(anchor, targetTime) ==
    Max(1, anchor.block + MathRound(targetTime - anchor.time, DEFAULT_MS_PER_BLOCK))

\* A matchesTx that does not compare the sender.
matchesTxAnySender(tx, user, systemAddress, expectedAmount) ==
    /\ normalizeAddress(tx.assetRecipient) = user
    /\ tx.amountWei = expectedAmount

matchesTx(tx, user, systemAddress, expectedAmount) ==
    /\ normalizeAddress(tx.from) = systemAddress
    /\ normalizeAddress(tx.assetRecipient) = user
    /\ tx.amountWei = expectedAmount

\* searchBlocks: the first matching tx of the first block that has one.
searchBlocks(blocks, user, systemAddress, expectedAmount) ==
    LET hitBlocks == { i \in 1..Len(blocks) :
                         \E j \in 1..Len(blocks[i].systemTxs) :
                            matchesTx(blocks[i].systemTxs[j], user, systemAddress, expectedAmount) }
    IN IF hitBlocks = {} THEN Null
       ELSE LET i == CHOOSE x \in hitBlocks : \A y \in hitBlocks : x <= y
                txs == blocks[i].systemTxs
                hitTxs == { j \in 1..Len(txs) : matchesTx(txs[j], user, systemAddress, expectedAmount) }
                j == CHOOSE x \in hitTxs : \A y \in hitTxs : x <= y
            IN [block |-> blocks[i], tx |-> txs[j]]

\* The estimate of one round.
Estimate(lowerBound, upperBound, targetTime) ==
    IF upperBound # Null
    THEN Max(lowerBound.block,
             Min(upperBound.block, interpolate(lowerBound, upperBound, targetTime)))
    ELSE extrapolate(lowerBound, targetTime)

\* A batch that is not clamped to the lower bound.
BatchBlockNumbersUnclamped(lowerBound, upperBound, targetTime) ==
    LET estimate == Estimate(lowerBound, upperBound, targetTime)
        halfBatch == BATCH_SIZE \div 2
        start0 == Max(1, estimate - halfBatch)
        batchStart == IF upperBound # Null /\ start0 + BATCH_SIZE > upperBound.block
                      THEN Max(1, upperBound.block - BATCH_SIZE + 1)
                      ELSE start0
        last == IF upperBound # Null
                THEN Min(batchStart + BATCH_SIZE - 1, upperBound.block)
                ELSE batchStart + BATCH_SIZE - 1
    IN [ i \in 1..Max(0, last - batchStart + 1) |-> batchStart + i - 1 ]

\* The block numbers one round passes to the fetcher.
BatchBlockNumbers(lowerBound, upperBound, targetTime) ==
    LET estimate == Estimate(lowerBound, upperBound, targetTime)
        halfBatch == BATCH_SIZE \div 2
        start0 == Max(1, estimate - halfBatch)
        start1 == IF upperBound # Null /\ start0 + BATCH_SIZE > upperBound.block
                  THEN Max(lowerBound.block, upperBound.block - BATCH_SIZE + 1)
                  ELSE start0
        batchStart == Max(lowerBound.block, start1)
        last == IF upperBound # Null
                THEN Min(batchStart + BATCH_SIZE - 1, upperBound.block)
                ELSE batchStart + BATCH_SIZE - 1
    IN [ i \in 1..Max(0, last - batchStart + 1) |-> batchStart + i - 1 ]

\* What findEvmHash derives from the transfer before searching.
FindQuery(transfer) ==
    [targetTime |-> transfer.hypercoreTime,
     user |-> normalizeAddress(transfer.user),
     systemAddress |-> normalizeAddress(transfer.systemAddress),
     expectedAmount |-> parseAmount(transfer.amount, EvmDecimalsOf(transfer.systemAddress))]

\* The parameters of the cache probe.
ProbeParams(q) ==
    [from |-> q.systemAddress, assetRecipient |-> q.user, amountWei |-> q.expectedAmount,
     minTime |-> q.targetTime - DB_SEARCH_BEFORE_MS,
     maxTime |-> q.targetTime + DB_SEARCH_WINDOW_MS]

\* The FindResult of the cache-hit path.
CacheResult(dbMatch) ==
    [hash |-> dbMatch.hash, explorerHash |-> dbMatch.explorerHash,
     block |-> dbMatch.blockNumber, blockHash |-> dbMatch.blockHash,
     blockTime |-> dbMatch.blockTimestamp, contractAddress |-> dbMatch.contractAddress,
     blocksSearched |-> 0, rounds |-> 0]

\* The FindResult of the block-scan path.
ScanResult(match, blocksSearched, round) ==
    [hash |-> match.tx.hash, explorerHash |-> match.tx.explorerHash,
     block |-> match.block.number, blockHash |-> match.block.hash,
     blockTime |-> match.block.timestamp, contractAddress |-> match.tx.contractAddress,
     blocksSearched |-> blocksSearched, rounds |-> round + 1]

\* Local state of the search loop at its start.
InitialSearch(before, after) ==
    [lowerBound |-> IF before # Null
                    THEN [block |-> before.blockNumber, time |-> before.blockTimestamp]
                    ELSE SEED_ANCHOR,
     upperBound |-> IF after # Null
                    THEN [block |-> after.blockNumber, time |-> after.blockTimestamp]
                    ELSE Null,
     round |-> 0, blocksSearched |-> 0, fetchCalls |-> 0, touched |-> {},
     status |-> "run", why |-> "", result |-> Null]

\* Largest fetched block at or before targetTime, when strictly tighter.
TightenLower(lowerBound, blocks, targetTime) ==
    LET c == { i \in 1..Len(blocks) : blocks[i].timestamp <= targetTime }
    IN IF c = {} THEN lowerBound
       ELSE LET i == CHOOSE x \in c : \A y \in c : blocks[x].number >= blocks[y].number
            IN IF blocks[i].number > lowerBound.block
               THEN [block |-> blocks[i].number, time |-> blocks[i].timestamp]
               ELSE lowerBound

\* An upper bound taken from the largest fetched block after targetTime.
TightenUpperLargest(upperBound, blocks, targetTime) ==
    LET c == { i \in 1..Len(blocks) : blocks[i].timestamp > targetTime }
    IN IF c = {} THEN upperBound
       ELSE LET i == CHOOSE x \in c : \A y \in c : blocks[x].number >= blocks[y].number
            IN IF upperBound = Null \/ blocks[i].number < upperBound.block
               THEN [block |-> blocks[i].number, time |-> blocks[i].timestamp]
               ELSE upperBound

\* Smallest fetched block after targetTime, when strictly tighter.
TightenUpper(upperBound, blocks, targetTime) ==
    LET c == { i \in 1..Len(blocks) : blocks[i].timestamp > targetTime }
    IN IF c = {} THEN upperBound
       ELSE LET i == CHOOSE x \in c : \A y \in c : blocks[x].number <= blocks[y].number
            IN IF upperBound = Null \/ blocks[i].number < upperBound.block
               THEN [block |-> blocks[i].number, time |-> blocks[i].timestamp]
               ELSE upperBound

\* A loop whose counter does not advance.
NextRoundNoCount(fs) == fs

\* A loop that ends after the first iteration that neither returned nor broke.
NextRoundStops(fs) == [fs EXCEPT !.round = @ + 1, !.status = "notfound", !.why = "exhausted"]

\* End of a loop iteration that neither returned nor broke: round++ and the
\* loop condition round < MAX_ROUNDS.
NextRound(fs) ==
    IF fs.round + 1 >= MAX_ROUNDS
    THEN [fs EXCEPT !.round = @ + 1, !.status = "notfound", !.why = "exhausted"]
    ELSE [fs EXCEPT !.round = @ + 1]

\* storeBlocksBackground(blocks): the batch of blocks with system txs whose
\* insert is started, none when no fetched block has any.
StoreBatch(blocks) ==
    LET withTxs == { blocks[i].number : i \in { j \in 1..Len(blocks) : blocks[j].systemTxs # <<>> } }
    IN IF withTxs = {} THEN {} ELSE { withTxs }

\* One iteration of the search loop of findEvmHash.
RoundStep(fs, q, ch, fetcher, net) ==
    LET blockNumbers == BatchBlockNumbers(fs.lowerBound, fs.upperBound, q.targetTime)
        fetched == fetchBlocks(fetcher, ch, blockNumbers, net)
    IN IF Len(blockNumbers) = 0
       THEN [fs EXCEPT !.status = "notfound", !.why = "norange"]
       ELSE IF ~fetched.ok
       THEN [fs EXCEPT !.status = "error", !.fetchCalls = @ + 1]
       ELSE
         LET blocks == fetched.blocks
             counted == [fs EXCEPT !.fetchCalls = @ + 1,
                                   !.blocksSearched = @ + Len(blocks),
                                   !.touched = @ \cup StoreBatch(blocks)]
             match == searchBlocks(blocks, q.user, q.systemAddress, q.expectedAmount)
             lower2 == TightenLower(fs.lowerBound, blocks, q.targetTime)
             upper2 == TightenUpper(fs.upperBound, blocks, q.targetTime)
             tightened == [counted EXCEPT !.lowerBound = lower2, !.upperBound = upper2]
         IN IF Len(blocks) = 0 THEN NextRound(counted)
            ELSE IF match # Null
            THEN [counted EXCEPT !.status = "found",
                                 !.result = ScanResult(match, counted.blocksSearched, fs.round)]
            ELSE IF upper2 # Null /\ upper2.block <= lower2.block + 1
            THEN [tightened EXCEPT !.status = "notfound", !.why = "converged"]
            ELSE NextRound(tightened)

\* The whole search loop against a network that behaves the same in every round.
RECURSIVE RunRounds(_, _, _, _, _)
RunRounds(fs, q, ch, fetcher, net) ==
    IF fs.status # "run" THEN fs
    ELSE RunRounds(RoundStep(fs, q, ch, fetcher, net), q, ch, fetcher, net)

\* What processTransfer sees of a finished search.
SearchOutcome(fs) ==
    IF fs.status = "found" THEN [type |-> "success", result |-> fs.result]
    ELSE IF fs.status = "notfound"
    THEN [type |-> "error", tag |-> "NotFoundError", blocksSearched |-> fs.blocksSearched]
    ELSE [type |-> "error", tag |-> "BlockFetchError"]

(***************************************************************************)
(* Transfer store (src/models/transfer.ts, collection transfers, unique    *)
(* index on hypercoreHash).  The CORE-side fields of a transfer never      *)
(* change after the insert; CoreTransfers holds them per hypercoreHash.    *)
(***************************************************************************)
CoreTransfer(time, amount, user, systemAddress) ==
    [hypercoreTime |-> time, amount |-> amount, user |-> user,
     systemAddress |-> systemAddress]

CoreTransfers ==
    [t1 |-> CoreTransfer(1800, Amount(15, 1), USER_A, HYPE_SYSTEM_ADDRESS),
     t2 |-> CoreTransfer(2800, Amount(15, 1), USER_A, HYPE_SYSTEM_ADDRESS),
     t3 |-> CoreTransfer(4200, Amount(25, 1), USER_B, SPOT_SYSTEM_ADDRESS)]

TransferIds == DOMAIN CoreTransfers

\* Pages of spot transfers to system addresses the indexer workers deliver
\* (the ledger API is inclusive-start and redelivers).
IndexerPages == { {"t1", "t2"}, {"t2", "t3"} }

\* The document insertTransfersBatch builds for a new transfer.
PendingDoc ==
    [status |-> "pending", hyperevmHash |-> Null, hyperevmExplorerHash |-> Null,
     hyperevmBlock |-> Null, hyperevmBlockHash |-> Null, hyperevmTime |-> Null,
     contractAddress |-> Null, failReason |-> Null]

\* A batch insert that replaces the documents already stored.
insertTransfersBatchReplacing(store, batch) ==
    [h \in DOMAIN store |-> IF h \in batch THEN PendingDoc ELSE store[h]]

\* insertMany(docs, {ordered: false}): duplicates on hypercoreHash are skipped.
insertTransfersBatch(store, batch) ==
    [h \in DOMAIN store |-> IF h \in batch /\ store[h] = Null THEN PendingDoc ELSE store[h]]

\* A getPendingTransfers that does not filter on the status.
getPendingTransfersAnyStatus(store, limit) ==
    LET stored == { h \in DOMAIN store : store[h] # Null }
        RECURSIVE Oldest(_, _)
        Oldest(S, n) ==
            IF S = {} \/ n = 0 THEN <<>>
            ELSE LET h == CHOOSE x \in S :
                            \A y \in S : CoreTransfers[x].hypercoreTime <= CoreTransfers[y].hypercoreTime
                 IN <<h>> \o Oldest(S \ {h}, n - 1)
    IN Oldest(stored, limit)

\* find({status: PENDING}).sort({hypercoreTime: 1}).limit(limit)
getPendingTransfers(store, limit) ==
    LET pend == { h \in DOMAIN store : store[h] # Null /\ store[h].status = "pending" }
        RECURSIVE Oldest(_, _)
        Oldest(S, n) ==
            IF S = {} \/ n = 0 THEN <<>>
            ELSE LET h == CHOOSE x \in S :
                            \A y \in S : CoreTransfers[x].hypercoreTime <= CoreTransfers[y].hypercoreTime
                 IN <<h>> \o Oldest(S \ {h}, n - 1)
    IN Oldest(pend, limit)

\* getTransferStats(...).pending
PendingCount(store) ==
    Cardinality({ h \in DOMAIN store : store[h] # Null /\ store[h].status = "pending" })

\* A markTransferMatched that leaves the block hash unset.
markTransferMatchedNoBlockHash(store, hypercoreHash, r) ==
    IF store[hypercoreHash] = Null THEN store
    ELSE [store EXCEPT ![hypercoreHash] =
            [status |-> "matched", hyperevmHash |-> Some(r.hash),
             hyperevmExplorerHash |-> Some(r.explorerHash),
             hyperevmBlock |-> Some(r.block), hyperevmBlockHash |-> Null,
             hyperevmTime |-> Some(r.blockTime), contractAddress |-> r.contractAddress,
             failReason |-> Null]]

\* updateOne({hypercoreHash}, {$set: {...evmData, status: MATCHED, failReason: null}})
markTransferMatched(store, hypercoreHash, r) ==
    IF store[hypercoreHash] = Null THEN store
    ELSE [store EXCEPT ![hypercoreHash] =
            [status |-> "matched", hyperevmHash |-> Some(r.hash),
             hyperevmExplorerHash |-> Some(r.explorerHash),
             hyperevmBlock |-> Some(r.block), hyperevmBlockHash |-> Some(r.blockHash),
             hyperevmTime |-> Some(r.blockTime), contractAddress |-> r.contractAddress,
             failReason |-> Null]]

\* updateOne({hypercoreHash}, {$set: {status: FAILED, failReason: reason}})
markTransferFailed(store, hypercoreHash, reason) ==
    IF store[hypercoreHash] = Null THEN store
    ELSE [store EXCEPT ![hypercoreHash].status = "failed",
                       ![hypercoreHash].failReason = Some(reason)]

(***************************************************************************)
(* Indexer fleet (src/services/core-indexer.ts) and the shared backoff.    *)
(* Times are milliseconds.  The backoff deadline is a JavaScript number:   *)
(* Num(n) or NaN, with the comparisons and Math.max of the language.       *)
(* Bounds: the retries of fetchUpdates (5 in the source), the entries of   *)
(* one API response, the 429 responses the API gives in a run and the      *)
(* start of the clock.                                                     *)
(***************************************************************************)
FETCH_RETRIES == 1
API_PAGE_LIMIT == 2
MaxRateLimits == 2
START_TIME == 1000
MaxBatch == 3
MaxCalls == 2

JITTER_BOUND == 2000
REQUEST_TIMEOUT_MS == 30000
DEFAULT_RETRY_AFTER == 60

Num(n) == [nan |-> FALSE, v |-> n]
NaN == [nan |-> TRUE, v |-> 0]

\* a > b on JavaScript numbers: false when either is NaN.
GtJs(a, b) == ~a.nan /\ ~b.nan /\ a.v > b.v

\* a >= b on JavaScript numbers: false when either is NaN.
GeqJs(a, b) == ~a.nan /\ ~b.nan /\ a.v >= b.v

\* Math.max(a, b): NaN when either is NaN.
MathMax(a, b) == IF a.nan \/ b.nan THEN NaN ELSE Num(Max(a.v, b.v))

\* The Retry-After header of a 429 response: absent, delay-seconds, or a
\* value that is not a decimal number (an HTTP-date, an empty value).
RetryAfterHeaders == { [kind |-> "absent"], [kind |-> "seconds", n |-> 1], [kind |-> "date"] }

\* parseInt(res.headers.get("Retry-After") ?? "60") * 1000
retryAfter(header) ==
    IF header.kind = "absent" THEN Num(DEFAULT_RETRY_AFTER * 1000)
    ELSE IF header.kind = "seconds" THEN Num(header.n * 1000)
    ELSE NaN

\* retryAfter * 1.1, the argument of backoff.trigger (the rounding error of
\* the floating-point product, far below a millisecond, is left out).
TriggerArg(header) ==
    LET r == retryAfter(header)
    IN IF r.nan THEN NaN ELSE Num((r.v * 11) \div 10)

\* backoff.trigger: Ref.update(backoffUntil, prev => Math.max(prev, Date.now() + retryAfterMs))
trigger(prev, nowMs, retryAfterMs) ==
    MathMax(prev, IF retryAfterMs.nan THEN NaN ELSE Num(nowMs + retryAfterMs.v))

\* The jitter Random.nextIntBetween(0, 2000) can give: its least and greatest value.
Jitters == {0, JITTER_BOUND - 1}

\* The watched addresses of the run.
WatchedSet == {USER_A, USER_B}

\* The ledger of the upstream API per address, ascending by time: spot
\* transfers to system addresses (the CORE side of t1, t2, t3), a deposit
\* and a spot transfer to another user.
LedgerUpdate(time, hash, type, destination) ==
    [time |-> time, hash |-> hash, type |-> type, destination |-> destination]

Ledger(address) ==
    IF address = USER_A
    THEN << LedgerUpdate(1800, "t1", "spotTransfer", Addr("0x2222", TRUE)),
            LedgerUpdate(2000, "d1", "deposit", Null),
            LedgerUpdate(2800, "t2", "spotTransfer", HYPE_SYSTEM_ADDRESS) >>
    ELSE << LedgerUpdate(4000, "x1", "spotTransfer", USER_A),
            LedgerUpdate(4200, "t3", "spotTransfer", SPOT_SYSTEM_ADDRESS) >>

\* The API's answer to userNonFundingLedgerUpdates(user, startTime): the
\* entries from startTime on (inclusive), oldest first, one response full.
\* An API that cuts a long answer at its head and returns the newest updates.
ApiPageNewest(address, startTime) ==
    LET from == SelectSeq(Ledger(address), LAMBDA u : u.time >= startTime)
    IN SubSeq(from, Len(from) - Min(Len(from), API_PAGE_LIMIT) + 1, Len(from))

ApiPage(address, startTime) ==
    LET from == SelectSeq(Ledger(address), LAMBDA u : u.time >= startTime)
    IN SubSeq(from, 1, Min(Len(from), API_PAGE_LIMIT))

\* isSystemAddress(addr)
isSystemAddress(addr) ==
    normalizeAddress(addr) \in {HYPE_SYSTEM_ADDRESS, SPOT_SYSTEM_ADDRESS}

\* filterSpotTransfers(updates) followed by processPage's filter to system
\* addresses: the hashes handed to insertTransfersBatch.
OutgoingHashes(updates) ==
    { updates[i].hash : i \in { j \in 1..Len(updates) :
                                  /\ updates[j].type = "spotTransfer"
                                  /\ isSystemAddress(updates[j].destination) } }

\* Math.max(...updates.map(u => u.time))
MaxUpdateTime(updates) ==
    CHOOSE t \in { updates[i].time : i \in 1..Len(updates) } :
        \A i \in 1..Len(updates) : t >= updates[i].time

\* insertTransfersBatch's result {inserted, duplicates} for a batch of
\* distinct hashes.
BatchInsertResult(store, batch) ==
    [inserted |-> Cardinality({ h \in batch : store[h] = Null }),
     duplicates |-> Cardinality({ h \in batch : store[h] # Null })]

\* watched_addresses documents.
WatchedDoc(lastIndexedTime, isActive) ==
    [lastIndexedTime |-> lastIndexedTime, isActive |-> isActive]

\* findActiveAddresses()
findActiveAddresses(store) == { a \in DOMAIN store : store[a] # Null /\ store[a].isActive }

\* updateCursor(address, lastIndexedTime): updateOne({address}, {$set: {lastIndexedTime}})
updateCursor(store, address, lastIndexedTime) ==
    IF store[address] = Null THEN store
    ELSE [store EXCEPT ![address].lastIndexedTime = lastIndexedTime]

\* addWatchedAddress: upsert with $setOnInsert.
addWatchedAddress(store, address) ==
    IF store[address] = Null THEN [store EXCEPT ![address] = WatchedDoc(0, TRUE)] ELSE store

\* deactivateAddress: $set {isActive: false}
deactivateAddress(store, address) ==
    IF store[address] = Null THEN store ELSE [store EXCEPT ![address].isActive = FALSE]

\* activateAddress: $set {isActive: true}
activateAddress(store, address) ==
    IF store[address] = Null THEN store ELSE [store EXCEPT ![address].isActive = TRUE]

\* resetAddress: $set {lastIndexedTime: 0, isActive: true}
resetAddress(store, address) ==
    IF store[address] = Null THEN store ELSE [store EXCEPT ![address] = WatchedDoc(0, TRUE)]

(***************************************************************************)
(* Matcher pool (src/services/evm-matcher.ts).                             *)
(***************************************************************************)
\* The outcome processTransfer returns for a Find result.
Outcome(result) ==
    IF result.type = "success" THEN "matched"
    ELSE IF result.type = "timeout" THEN "error"
    ELSE IF result.tag = "NotFoundError" THEN "failed"
    ELSE "error"

\* A processTransfer that also marks the transfer FAILED on a fetch error.
processTransferWriteOnFetchError(store, hypercoreHash, result) ==
    IF result.type = "success"
    THEN markTransferMatched(store, hypercoreHash, result.result)
    ELSE IF result.type = "timeout" THEN store
    ELSE IF result.tag \in {"NotFoundError", "BlockFetchError"}
    THEN markTransferFailed(store, hypercoreHash, 0)
    ELSE store

\* The persistence write of processTransfer for a Find result.
processTransferWrite(store, hypercoreHash, result) ==
    IF result.type = "success"
    THEN markTransferMatched(store, hypercoreHash, result.result)
    ELSE IF result.type = "timeout" THEN store
    ELSE IF result.tag = "NotFoundError"
    THEN markTransferFailed(store, hypercoreHash, result.blocksSearched)
    ELSE store

\* newSet.delete(hash): the set keeps its insertion order.
DedupDelete(seq, h) == SelectSeq(seq, LAMBDA x : x # h)

\* The producer's Ref.update: add the new hashes, then keep the last
\* DEDUP_KEEP entries when the set has grown beyond DEDUP_LIMIT.
RECURSIVE DedupAddAll(_, _)
DedupAddAll(seq, newHashes) ==
    IF newHashes = <<>> THEN seq
    ELSE DedupAddAll(IF Head(newHashes) \in Range(seq) THEN seq
                     ELSE Append(seq, Head(newHashes)),
                     Tail(newHashes))

\* An update that keeps the oldest DEDUP_KEEP entries.
DedupUpdateOldest(seq, newHashes) ==
    LET added == DedupAddAll(seq, newHashes)
    IN IF Len(added) > DEDUP_LIMIT THEN SubSeq(added, 1, DEDUP_KEEP) ELSE added

DedupUpdate(seq, newHashes) ==
    LET added == DedupAddAll(seq, newHashes)
    IN IF Len(added) > DEDUP_LIMIT
       THEN SubSeq(added, Len(added) - DEDUP_KEEP + 1, Len(added))
       ELSE added

\* Ref.update(counter, n => n + 1); the model saturates the counters.
Bump(n) == IF n < MaxCount THEN n + 1 ELSE n

Workers == 1..EVM_MATCHER_CONCURRENCY

\* The chain the matcher pool runs against: six blocks one second apart, the
\* system txs of t1 and t2 in blocks 3 and 4.
MatcherChain ==
    << BlockData(1, 0, <<>>), BlockData(2, 1000, <<>>),
       BlockData(3, 2000, << SystemTx("A", Addr("0x2222", TRUE), USER_A, 150, Null) >>),
       BlockData(4, 3000, <<>>),
       BlockData(5, 4000, <<>>), BlockData(6, 5000, <<>>) >>

VARIABLES
    transfers,      \* hypercoreHash -> stored transfer document, or Null
    systemTxs,      \* the anchor store: a set of system_txs documents
    bgPending,      \* block numbers whose background store is in flight
    chain,          \* the EVM chain the fetchers read
    queue,          \* the matcher queue (hypercoreHashes of the queued transfers)
    queuedHashes,   \* the dedup set, in insertion order
    fetcherRef,     \* the active fetcher
    counters,       \* matched / failed / errors
    prod,           \* the producer fiber
    workers,        \* the consumer fibers
    find,           \* a findEvmHash call observed round by round
    now,            \* the clock (Date.now(), milliseconds)
    backoffUntil,   \* the shared backoff deadline of the indexer (a JS number)
    ixWorkers,      \* watched address -> its indexer worker fiber
    watched,        \* watched address -> its watched_addresses document, or Null
    runningKeys,    \* the addresses the indexer controller counts as running
    outbound,       \* the last outbound request, the last 429 and the number of 429s
    inserts,        \* insertTransfersBatch calls on one batch, document by document
    anchorLog,      \* the storeBlocksSystemTxs calls made so far
    program,        \* the main program: its fibers, their tasks, the storage connection
    fetchCall,      \* one fetchBlocks call of a block fetcher, attempt by attempt
    estimate        \* one estimateBlock call: its inputs and what it returned

IndexerVars == <<now, backoffUntil, ixWorkers, watched, runningKeys, outbound>>
StoreVars == <<inserts, anchorLog, program, fetchCall, estimate>>

vars == <<transfers, systemTxs, bgPending, chain, queue, queuedHashes, fetcherRef,
          counters, prod, workers, find, IndexerVars, StoreVars>>

IdleWorker == [pc |-> "take", transfer |-> "", fetcher |-> ""]
IdleProducer == [pc |-> "check", batchSize |-> 0, pending |-> <<>>, newHashes |-> <<>>]
NoFind == [pc |-> "off"]
ProgramOff == [pc |-> "off"]
FetchOff == [pc |-> "off"]
EstimateOff == [pc |-> "off"]

\* No request issued and no 429 received yet.
NoOutbound == [rateLimits |-> 0, lastCall |-> Null, limited |-> Null]

\* No insert call is observed.
StoreOff ==
    /\ inserts = [pc |-> "off"]
    /\ anchorLog = <<>>
    /\ program = ProgramOff
    /\ fetchCall = FetchOff
    /\ estimate = EstimateOff

\* The indexer service is not observed.
IndexerOff ==
    /\ now = START_TIME
    /\ backoffUntil = Num(0)
    /\ ixWorkers = [a \in WatchedSet |-> [pc |-> "none"]]
    /\ watched = [a \in WatchedSet |-> Null]
    /\ runningKeys = {}
    /\ outbound = NoOutbound

Init ==
    /\ IndexerOff
    /\ StoreOff
    /\ transfers = [h \in TransferIds |-> Null]
    /\ systemTxs = {}
    /\ bgPending = {}
    /\ chain = MatcherChain
    /\ queue = <<>>
    /\ queuedHashes = <<>>
    /\ fetcherRef = "s3"
    /\ counters = [matched |-> 0, failed |-> 0, errors |-> 0]
    /\ prod = IdleProducer
    /\ workers = [w \in Workers |-> IdleWorker]
    /\ find = NoFind

\* An indexer worker stores a page (processPage -> insertTransfersBatch).
IndexPage(batch) ==
    /\ transfers' = insertTransfersBatch(transfers, batch)
    /\ transfers' # transfers
    /\ UNCHANGED <<systemTxs, bgPending, chain, queue, queuedHashes, fetcherRef,
                   counters, prod, workers, find, IndexerVars, StoreVars>>

\* A strategy selection that already backfills at the threshold.
selectFetcherAtThreshold(pending) == IF pending >= BACKFILL_THRESHOLD THEN "s3" ELSE "rpc"

\* Producer: isBackfill = stats.pending > BACKFILL_THRESHOLD selects the fetcher.
selectFetcher(pending) == IF pending > BACKFILL_THRESHOLD THEN "s3" ELSE "rpc"

\* A batch size one above the room left in the queue.
RefillBatchSizeOver(queueSize) == QUEUE_CAPACITY - queueSize + 1

\* Producer: batchSize = Math.min(QUEUE_CAPACITY - queueSize, EVM_MATCHER_BATCH_SIZE)
RefillBatchSize(queueSize) == Min(QUEUE_CAPACITY - queueSize, EVM_MATCHER_BATCH_SIZE)

\* A producer that refills whatever the size of the queue.
ProducerCheckAnySize(statsOk) ==
    /\ prod.pc = "check"
    /\ LET pending == IF statsOk THEN PendingCount(transfers) ELSE 0
       IN /\ fetcherRef' = selectFetcher(pending)
          /\ prod' = IF pending > 0
                     THEN [prod EXCEPT !.pc = "fetch",
                             !.batchSize = RefillBatchSize(Len(queue))]
                     ELSE [prod EXCEPT !.pc = "sleep"]
    /\ UNCHANGED <<transfers, systemTxs, bgPending, chain, queue, queuedHashes,
                   counters, workers, find, IndexerVars, StoreVars>>

\* Producer: Queue.size, and below the low watermark getTransferStats and the
\* strategy switch.  statsOk = FALSE is the catchAll fallback to zero counts.
\* With nothing pending the iteration goes straight to its sleep.
ProducerCheck(statsOk) ==
    /\ prod.pc = "check"
    /\ Len(queue) < QUEUE_LOW_WATERMARK
    /\ LET pending == IF statsOk THEN PendingCount(transfers) ELSE 0
       IN /\ fetcherRef' = selectFetcher(pending)
          /\ prod' = IF pending > 0
                     THEN [prod EXCEPT !.pc = "fetch",
                             !.batchSize = RefillBatchSize(Len(queue))]
                     ELSE [prod EXCEPT !.pc = "sleep"]
    /\ UNCHANGED <<transfers, systemTxs, bgPending, chain, queue, queuedHashes,
                   counters, workers, find, IndexerVars, StoreVars>>

\* Producer: an iteration that finds the queue at or above the low watermark
\* reads no stats, leaves the fetcher as it is and goes to its sleep.
ProducerSkip ==
    /\ prod.pc = "check"
    /\ Len(queue) >= QUEUE_LOW_WATERMARK
    /\ prod' = [prod EXCEPT !.pc = "sleep"]
    /\ UNCHANGED <<transfers, systemTxs, bgPending, chain, queue, queuedHashes,
                   fetcherRef, counters, workers, find, IndexerVars, StoreVars>>

\* Producer: the sleep of REFILL_INTERVAL_MS ends and the next iteration starts.
ProducerSleep ==
    /\ prod.pc = "sleep"
    /\ prod' = IdleProducer
    /\ UNCHANGED <<transfers, systemTxs, bgPending, chain, queue, queuedHashes,
                   fetcherRef, counters, workers, find, IndexerVars, StoreVars>>

\* Producer: getPendingTransfers(batchSize); readOk = FALSE is the catchAll
\* fallback to an empty batch.
ProducerFetch(readOk) ==
    /\ prod.pc = "fetch"
    /\ prod' = [prod EXCEPT !.pc = "snapshot", !.batchSize = 0,
                  !.pending = IF readOk THEN getPendingTransfers(transfers, prod.batchSize)
                              ELSE <<>>]
    /\ UNCHANGED <<transfers, systemTxs, bgPending, chain, queue, queuedHashes,
                   fetcherRef, counters, workers, find, IndexerVars, StoreVars>>

\* A producer that offers every transfer of the batch, queued already or not.
ProducerSnapshotUnfiltered ==
    /\ prod.pc = "snapshot"
    /\ prod' = [prod EXCEPT !.pc = "offer"]
    /\ UNCHANGED <<transfers, systemTxs, bgPending, chain, queue, queuedHashes,
                   fetcherRef, counters, workers, find, IndexerVars, StoreVars>>

\* Producer: Ref.get(queuedHashesRef).  The loop that follows skips every
\* transfer whose hash is in this snapshot; the skipped ones are dropped from
\* the batch here.
ProducerSnapshot ==
    /\ prod.pc = "snapshot"
    /\ prod' = [prod EXCEPT !.pc = "offer",
                  !.pending = SelectSeq(@, LAMBDA h : h \notin Range(queuedHashes))]
    /\ UNCHANGED <<transfers, systemTxs, bgPending, chain, queue, queuedHashes,
                   fetcherRef, counters, workers, find, IndexerVars, StoreVars>>

\* Producer: one Queue.offer of the loop over the batch; it suspends while
\* the queue is full.
ProducerOffer ==
    /\ prod.pc = "offer"
    /\ prod.pending # <<>>
    /\ Len(queue) < QUEUE_CAPACITY
    /\ queue' = Append(queue, Head(prod.pending))
    /\ prod' = [prod EXCEPT !.pending = Tail(@), !.newHashes = Append(@, Head(prod.pending))]
    /\ UNCHANGED <<transfers, systemTxs, bgPending, chain, queuedHashes, fetcherRef,
                   counters, workers, find, IndexerVars, StoreVars>>

\* Producer: the Ref.update of the dedup set after the loop; the sleep follows.
ProducerCommit ==
    /\ prod.pc = "offer"
    /\ prod.pending = <<>>
    /\ queuedHashes' = IF prod.newHashes # <<>>
                       THEN DedupUpdate(queuedHashes, prod.newHashes)
                       ELSE queuedHashes
    /\ prod' = [IdleProducer EXCEPT !.pc = "sleep"]
    /\ UNCHANGED <<transfers, systemTxs, bgPending, chain, queue, fetcherRef,
                   counters, workers, find, IndexerVars, StoreVars>>

(***************************************************************************)
(* The start of findEvmHash: asset lookup (with one refresh for an unknown *)
(* system address) and the cache probe, whose storage error is caught and  *)
(* treated as "no cached match".                                           *)
(***************************************************************************)
ProbeOutcomes(transfer, store, refreshOk, dbOk) ==
    LET q == FindQuery(transfer)
        hits == findMatchingTx(store, ProbeParams(q))
    IN IF getAssetBySystemAddress(q.systemAddress) = Null /\ ~refreshOk
       THEN { [kind |-> "fail"] }
       ELSE IF dbOk /\ hits # {}
       THEN { [kind |-> "hit", result |-> CacheResult(d)] : d \in hits }
       ELSE { [kind |-> "miss"] }

\* findBracketingAnchors with its catchAll fallback to {before: null, after: null}.
BracketOutcomes(store, targetTime, dbOk) ==
    IF dbOk
    THEN { [before |-> b, after |-> a] :
             b \in AnchorsBefore(store, targetTime), a \in AnchorsAfter(store, targetTime) }
    ELSE { [before |-> Null, after |-> Null] }

NetOutcomes == {"ok", "fail", "null"}

\* Blocks of a fetch that storeBlocksSystemTxs has something to store for.

\* findEvmHash as a whole: the possible pairs of what processTransfer sees
\* (a FindResult, NotFoundError, BlockFetchError, Error) and the blocks that
\* were fetched on the way, over every behaviour of the asset refresh and of
\* the network, and over the behaviours reads (TRUE: succeeds, FALSE: fails
\* with a storage error) of the two storage reads.
FindOutcomes(transfer, store, ch, fetcher, reads) ==
    LET q == FindQuery(transfer)
        probes == UNION { ProbeOutcomes(transfer, store, refreshOk, dbOk) :
                            refreshOk \in BOOLEAN, dbOk \in reads }
        brackets == UNION { BracketOutcomes(store, q.targetTime, dbOk) : dbOk \in reads }
        scans == { RunRounds(InitialSearch(br.before, br.after), q, ch, fetcher, net) :
                     br \in brackets, net \in NetOutcomes }
    IN { [result |-> [type |-> "success", result |-> o.result], touched |-> {}] :
           o \in { x \in probes : x.kind = "hit" } }
       \cup { [result |-> [type |-> "error", tag |-> "Error"], touched |-> {}] :
                o \in { x \in probes : x.kind = "fail" } }
       \cup { [result |-> SearchOutcome(fs), touched |-> fs.touched] :
                fs \in IF \E x \in probes : x.kind = "miss" THEN scans ELSE {} }

\* Effect.timeout(TRANSFER_TIMEOUT_MS) around findEvmHash: the search may be
\* interrupted before or after any of its fetches.
TimedFindOutcomes(transfer, store, ch, fetcher, reads) ==
    LET outs == FindOutcomes(transfer, store, ch, fetcher, reads)
    IN outs \cup { [result |-> [type |-> "timeout"], touched |-> t] :
                     t \in {{}} \cup { o.touched : o \in outs } }

\* Consumer: Queue.take and Ref.get(fetcherRef).
WorkerTake(w) ==
    /\ workers[w].pc = "take"
    /\ queue # <<>>
    /\ queue' = Tail(queue)
    /\ workers' = [workers EXCEPT ![w] =
                     [pc |-> "process", transfer |-> Head(queue), fetcher |-> fetcherRef]]
    /\ UNCHANGED <<transfers, systemTxs, bgPending, chain, queuedHashes, fetcherRef,
                   counters, prod, find, IndexerVars, StoreVars>>

\* Consumer: processTransfer (findEvmHash under the timeout, then the
\* persistence write for the outcome) and the worker's bookkeeping.  The
\* search reads only the anchor store and the chain and the write touches only
\* the transfer store, so the two commute with the steps of the other fibers
\* and are taken as one step.
WorkerProcess(w, reads) ==
    /\ workers[w].pc = "process"
    /\ \E o \in TimedFindOutcomes(CoreTransfers[workers[w].transfer], systemTxs, chain,
                                  workers[w].fetcher, reads) :
         LET h == workers[w].transfer
             outcome == Outcome(o.result)
         IN /\ bgPending' = bgPending \cup o.touched
            /\ transfers' = processTransferWrite(transfers, h, o.result)
            /\ counters' = IF outcome = "matched" THEN [counters EXCEPT !.matched = Bump(@)]
                           ELSE IF outcome = "failed" THEN [counters EXCEPT !.failed = Bump(@)]
                           ELSE [counters EXCEPT !.errors = Bump(@)]
            /\ queuedHashes' = IF outcome = "error" THEN DedupDelete(queuedHashes, h)
                               ELSE queuedHashes
    /\ workers' = [workers EXCEPT ![w] = IdleWorker]
    /\ UNCHANGED <<systemTxs, chain, queue, fetcherRef, prod, find, IndexerVars, StoreVars>>

\* storeBlocksBackground: the detached insert of a fetched block completes.
BackgroundStore(batch) ==
    /\ batch \in bgPending
    /\ systemTxs' = storeBlocksSystemTxs(systemTxs, { chain[n] : n \in batch })
    /\ bgPending' = bgPending \ {batch}
    /\ UNCHANGED <<transfers, chain, queue, queuedHashes, fetcherRef, counters,
                   prod, workers, find, IndexerVars, StoreVars>>

\* storeBlocksBackground: the detached insert fails (logged, not propagated).
BackgroundStoreFails(batch) ==
    /\ batch \in bgPending
    /\ bgPending' = bgPending \ {batch}
    /\ UNCHANGED <<transfers, systemTxs, chain, queue, queuedHashes, fetcherRef,
                   counters, prod, workers, find, IndexerVars, StoreVars>>

Next ==
    \/ \E batch \in IndexerPages : IndexPage(batch)
    \/ \E statsOk \in BOOLEAN : ProducerCheck(statsOk)
    \/ ProducerSkip
    \/ ProducerSleep
    \/ \E readOk \in BOOLEAN : ProducerFetch(readOk)
    \/ ProducerSnapshot
    \/ ProducerOffer
    \/ ProducerCommit
    \/ \E w \in Workers : WorkerTake(w)
    \/ \E w \in Workers : WorkerProcess(w, BOOLEAN)
    \/ \E batch \in bgPending : BackgroundStore(batch)
    \/ \E batch \in bgPending : BackgroundStoreFails(batch)

Spec == Init /\ [][Next]_vars

(***************************************************************************)
(* The matcher pool under fair scheduling and with storage reads that      *)
(* succeed: the producer fiber and every worker fiber keep being scheduled *)
(* by the runtime, so each of them eventually takes a step it can take.    *)
(* A worker that has dequeued a transfer can always finish processing it   *)
(* (Effect.timeout ends the search after TRANSFER_TIMEOUT_MS at the        *)
(* latest) and only its own WorkerProcess step ends the processing, so     *)
(* weak fairness of that step is that no worker stays in it for ever.      *)
(***************************************************************************)
ProducerStep ==
    \/ ProducerCheck(TRUE)
    \/ ProducerSkip
    \/ ProducerSleep
    \/ ProducerFetch(TRUE)
    \/ ProducerSnapshot
    \/ ProducerOffer
    \/ ProducerCommit

WorkerStep(w) == WorkerTake(w) \/ WorkerProcess(w, {TRUE})

WorkerFinishes(w) == []<>(workers[w].pc # "process")

NextFair ==
    \/ \E batch \in IndexerPages : IndexPage(batch)
    \/ ProducerStep
    \/ \E w \in Workers : WorkerStep(w)
    \/ \E batch \in bgPending : BackgroundStore(batch)
    \/ \E batch \in bgPending : BackgroundStoreFails(batch)

SpecFair ==
    /\ Init
    /\ [][NextFair]_vars
    /\ WF_vars(ProducerStep)
    /\ \A w \in Workers : WF_vars(WorkerTake(w)) /\ WorkerFinishes(w)

(***************************************************************************)
(* A single caller of findEvmHash, observed step by step: the cache probe, *)
(* the bracketing lookup, then one action per round of the search loop,    *)
(* each round with its own network behaviour, while the background stores  *)
(* of the fetched blocks complete or fail at any later time.  The caller   *)
(* may call findEvmHash a second time for the same transfer.               *)
(***************************************************************************)
\* Blocks one second apart.
ChainNear ==
    << BlockData(1, 0, <<>>), BlockData(2, 1000, <<>>),
       BlockData(3, 2000, << SystemTx("A", Addr("0x2222", TRUE), USER_A, 150, Null) >>),
       BlockData(4, 3000, << SystemTx("B", HYPE_SYSTEM_ADDRESS, USER_B, 150, Null),
                             SystemTx("C", SPOT_SYSTEM_ADDRESS, USER_A, 150,
                                      Some(Addr("0xc0de", TRUE))) >>),
       BlockData(5, 4000, <<>>), BlockData(6, 5000, <<>>),
       BlockData(7, 6000, << SystemTx("D", HYPE_SYSTEM_ADDRESS, Addr("0xaaaa", TRUE), 150, Null),
                             SystemTx("E", HYPE_SYSTEM_ADDRESS, USER_A, 151, Null) >>) >>

\* Blocks a tenth of a second apart.
ChainFast ==
    [ n \in 1..9 |->
        BlockData(n, (n - 1) * 100,
                  IF n = 5 THEN << SystemTx("F", HYPE_SYSTEM_ADDRESS, USER_A, 150, Null) >>
                  ELSE <<>>) ]

\* Blocks whose timestamps are out of order: block 2 carries a later time
\* than block 3, so the anchors bracketing a time between them are inverted.
ChainSkew ==
    << BlockData(1, 0, <<>>),
       BlockData(2, 3000, << SystemTx("G", HYPE_SYSTEM_ADDRESS, USER_B, 150, Null) >>),
       BlockData(3, 2000, << SystemTx("H", HYPE_SYSTEM_ADDRESS, USER_B, 150, Null) >>),
       BlockData(4, 4000, <<>>) >>

FindChains == { ChainNear, ChainFast, ChainSkew }

FindTransfers ==
    { CoreTransfer(1800, Amount(15, 1), Addr("0xaaaa", TRUE), HYPE_SYSTEM_ADDRESS),
      CoreTransfer(2400, Amount(1505, 3), USER_A, HYPE_SYSTEM_ADDRESS),
      CoreTransfer(6000, Amount(15, 1), USER_A, Addr("0x2222", TRUE)),
      CoreTransfer(2800, Amount(15, 0), USER_A, SPOT_SYSTEM_ADDRESS),
      CoreTransfer(1800, Amount(15, 1), USER_A, UNKNOWN_SYSTEM_ADDRESS) }

\* The anchor stores earlier searches can have left behind for a chain.
StoresOf(ch) ==
    { storeBlocksSystemTxs({}, { ch[n] : n \in ns }) :
        ns \in SUBSET { n \in DOMAIN ch : ch[n].systemTxs # <<>> } }

StartFind(transfer, fetcher, call, first) ==
    [pc |-> "probe", transfer |-> transfer, fetcher |-> fetcher, call |-> call,
     probe |-> "", bracket |-> Null, fs |-> Null, result |-> Null, first |-> first]

InitFind ==
    /\ IndexerOff
    /\ StoreOff
    /\ transfers = [h \in TransferIds |-> Null]
    /\ bgPending = {}
    /\ queue = <<>>
    /\ queuedHashes = <<>>
    /\ fetcherRef = "s3"
    /\ counters = [matched |-> 0, failed |-> 0, errors |-> 0]
    /\ prod = IdleProducer
    /\ workers = [w \in Workers |-> IdleWorker]
    /\ chain \in FindChains
    /\ systemTxs \in StoresOf(chain)
    /\ \E transfer \in FindTransfers, fetcher \in {"rpc", "s3"} :
         find = StartFind(transfer, fetcher, 1, Null)

MatcherIdle == <<transfers, queue, queuedHashes, fetcherRef, counters, prod, workers,
                 IndexerVars, StoreVars>>

\* findEvmHash lines 175-210: asset lookup and cache probe.  probe records
\* which way the step went: "hit", "miss", "dberror" (the storage error the
\* catchAll turned into a miss) or "asset" (the asset refresh failed).
FindProbe(refreshOk, dbOk) ==
    /\ find.pc = "probe"
    /\ \E o \in ProbeOutcomes(find.transfer, systemTxs, refreshOk, dbOk) :
         find' = IF o.kind = "hit"
                 THEN [find EXCEPT !.pc = "done", !.probe = "hit",
                         !.result = [type |-> "success", result |-> o.result]]
                 ELSE IF o.kind = "fail"
                 THEN [find EXCEPT !.pc = "done", !.probe = "asset",
                         !.result = [type |-> "error", tag |-> "Error"]]
                 ELSE [find EXCEPT !.pc = "bracket",
                         !.probe = IF dbOk THEN "miss" ELSE "dberror"]
    /\ UNCHANGED <<systemTxs, bgPending, chain>>
    /\ UNCHANGED MatcherIdle

\* findBracketingAnchors, lines 669-715: two findOne queries issued together
\* by Promise.all, each answered from the store as it is when the query runs.
\* The first answer to arrive, of either query; a failed lookup leaves the
\* default bounds.
FindBracket(dbOk) ==
    /\ find.pc = "bracket"
    /\ IF dbOk
       THEN \E q \in {"before", "after"} :
               \E anchor \in IF q = "before"
                             THEN AnchorsBefore(systemTxs, find.transfer.hypercoreTime)
                             ELSE AnchorsAfter(systemTxs, find.transfer.hypercoreTime) :
                  find' = [find EXCEPT !.pc = "bracket2",
                                       !.bracket = [query |-> q, anchor |-> anchor]]
       ELSE find' = [find EXCEPT !.pc = "round", !.fs = InitialSearch(Null, Null)]
    /\ UNCHANGED <<systemTxs, bgPending, chain>>
    /\ UNCHANGED MatcherIdle

\* The answer of the other query arrives and the search starts from the two.
FindBracketJoin ==
    /\ find.pc = "bracket2"
    /\ \E anchor \in IF find.bracket.query = "before"
                     THEN AnchorsAfter(systemTxs, find.transfer.hypercoreTime)
                     ELSE AnchorsBefore(systemTxs, find.transfer.hypercoreTime) :
         LET br == IF find.bracket.query = "before"
                   THEN [before |-> find.bracket.anchor, after |-> anchor]
                   ELSE [before |-> anchor, after |-> find.bracket.anchor]
         IN find' = [find EXCEPT !.pc = "round", !.bracket = br,
                                 !.fs = InitialSearch(br.before, br.after)]
    /\ UNCHANGED <<systemTxs, bgPending, chain>>
    /\ UNCHANGED MatcherIdle

\* A round that probes the anchor store again before it fetches.
FindRoundReadsStore(net) ==
    /\ find.pc = "round"
    /\ \E o \in ProbeOutcomes(find.transfer, systemTxs, TRUE, TRUE) :
         IF o.kind = "hit"
         THEN /\ find' = [find EXCEPT !.pc = "done",
                             !.result = [type |-> "success", result |-> o.result]]
              /\ UNCHANGED bgPending
         ELSE LET fs2 == RoundStep([find.fs EXCEPT !.touched = {}], FindQuery(find.transfer),
                                   chain, find.fetcher, net)
              IN /\ find' = [find EXCEPT !.fs = fs2,
                               !.pc = IF fs2.status = "run" THEN "round" ELSE "done",
                               !.result = IF fs2.status = "run" THEN Null ELSE SearchOutcome(fs2)]
                 /\ bgPending' = bgPending \cup fs2.touched
    /\ UNCHANGED <<systemTxs, chain>>
    /\ UNCHANGED MatcherIdle

\* findEvmHash lines 239-371: one iteration of the loop; the fetched blocks
\* are handed to storeBlocksBackground.
FindRound(net) ==
    /\ find.pc = "round"
    /\ LET fs2 == RoundStep([find.fs EXCEPT !.touched = {}], FindQuery(find.transfer), chain,
                            find.fetcher, net)
       IN /\ find' = [find EXCEPT !.fs = fs2,
                        !.pc = IF fs2.status = "run" THEN "round" ELSE "done",
                        !.result = IF fs2.status = "run" THEN Null ELSE SearchOutcome(fs2)]
          /\ bgPending' = bgPending \cup fs2.touched
    /\ UNCHANGED <<systemTxs, chain>>
    /\ UNCHANGED MatcherIdle

\* The caller calls findEvmHash again for the same transfer.
FindAgain ==
    /\ find.pc = "done"
    /\ find.call = 1
    /\ find.result.type = "success"
    /\ find' = StartFind(find.transfer, find.fetcher, 2,
                         [probe |-> find.probe, result |-> find.result])
    /\ UNCHANGED <<systemTxs, bgPending, chain>>
    /\ UNCHANGED MatcherIdle

NextFind ==
    \/ \E refreshOk \in BOOLEAN, dbOk \in BOOLEAN : FindProbe(refreshOk, dbOk)
    \/ \E dbOk \in BOOLEAN : FindBracket(dbOk)
    \/ FindBracketJoin
    \/ \E net \in NetOutcomes : FindRound(net)
    \/ FindAgain
    \/ \E batch \in bgPending : BackgroundStore(batch)
    \/ \E batch \in bgPending : BackgroundStoreFails(batch)

SpecFind == InitFind /\ [][NextFind]_vars

(***************************************************************************)
(* The indexer service: the controller of runIndexerService, one worker    *)
(* fiber per watched address (runAddressWorker around fetchUpdates and     *)
(* processPage), the shared backoff of makeBackoff, the operations on the  *)
(* watched_addresses collection, and the clock.  The retry delays of       *)
(* fetchUpdates, the poll sleep of a worker and the controller's sleep     *)
(* end at any later moment; the sleep of backoff.wait ends at its wake-up  *)
(* time or later.                                                          *)
(***************************************************************************)
NoFiber == [pc |-> "none"]
DeadFiber == [pc |-> "dead"]

\* A worker that starts from the beginning of the ledger whatever cursor it
\* is handed.
StartFiberFromZero(initialCursor) ==
    [pc |-> "wait", cursor |-> 0, retries |-> 0, wakeAt |-> 0, sentAt |-> 0,
     updates |-> <<>>]

\* runAddressWorker(backoff, address, initialCursor) at its start.
StartFiber(initialCursor) ==
    [pc |-> "wait", cursor |-> initialCursor, retries |-> 0, wakeAt |-> 0, sentAt |-> 0,
     updates |-> <<>>]

Running(a) == ixWorkers[a].pc \notin {"none", "dead"}

IndexerUnchanged == <<systemTxs, bgPending, chain, queue, queuedHashes, fetcherRef,
                      counters, prod, workers, find, StoreVars>>

\* backoff.wait: Ref.get(backoffUntil), and when it lies ahead a sleep of
\* until - now + jitter.
BackoffWait(a, jitter) ==
    /\ ixWorkers[a].pc = "wait"
    /\ ixWorkers' = [ixWorkers EXCEPT ![a] =
                       IF GtJs(backoffUntil, Num(now))
                       THEN [@ EXCEPT !.pc = "backoff", !.wakeAt = backoffUntil.v + jitter]
                       ELSE [@ EXCEPT !.pc = "request"]]
    /\ UNCHANGED <<transfers, now, backoffUntil, watched, runningKeys, outbound>>
    /\ UNCHANGED IndexerUnchanged

\* The sleep of backoff.wait is over; wait returns without reading the
\* deadline again.
BackoffWake(a) ==
    /\ ixWorkers[a].pc = "backoff"
    /\ now >= ixWorkers[a].wakeAt
    /\ ixWorkers' = [ixWorkers EXCEPT ![a] = [@ EXCEPT !.pc = "request", !.wakeAt = 0]]
    /\ UNCHANGED <<transfers, now, backoffUntil, watched, runningKeys, outbound>>
    /\ UNCHANGED IndexerUnchanged

\* fetchUpdates issues the POST to the ledger API.
FetchRequest(a) ==
    /\ ixWorkers[a].pc = "request"
    /\ ixWorkers' = [ixWorkers EXCEPT ![a] = [@ EXCEPT !.pc = "inflight", !.sentAt = now]]
    /\ outbound' = [outbound EXCEPT !.lastCall = [who |-> "indexer", at |-> now]]
    /\ UNCHANGED <<transfers, now, backoffUntil, watched, runningKeys>>
    /\ UNCHANGED IndexerUnchanged

\* A failed attempt of fetchUpdates under Effect.retry: another attempt
\* after a delay, or the error leaves runAddressWorker and the catchAll of
\* the controller logs it, which ends the fiber.
FailAttempt(w) ==
    IF w.retries < FETCH_RETRIES
    THEN [w EXCEPT !.pc = "delay", !.retries = @ + 1, !.sentAt = 0]
    ELSE DeadFiber

\* The responses of the ledger API: a page of updates, a failure (timeout,
\* HTTP error, unparsable body), or a 429 with its Retry-After header.
Ok == [kind |-> "ok"]
Failure == [kind |-> "error"]
RateLimited == { [kind |-> "rateLimited", header |-> h] : h \in RetryAfterHeaders }

\* The response reaches fetchUpdates, within REQUEST_TIMEOUT_MS unless it is
\* the timeout itself; a 429 triggers the shared backoff.
FetchResponse(a, resp) ==
    /\ ixWorkers[a].pc = "inflight"
    /\ resp.kind # "error" => now <= ixWorkers[a].sentAt + REQUEST_TIMEOUT_MS
    /\ IF resp.kind = "ok"
       THEN LET updates == ApiPage(a, ixWorkers[a].cursor)
            IN /\ ixWorkers' = [ixWorkers EXCEPT ![a] =
                                  IF Len(updates) = 0
                                  THEN [@ EXCEPT !.pc = "delay", !.retries = 0, !.sentAt = 0]
                                  ELSE [@ EXCEPT !.pc = "page", !.retries = 0, !.sentAt = 0,
                                                 !.updates = updates]]
               /\ UNCHANGED <<backoffUntil, outbound>>
       ELSE IF resp.kind = "error"
       THEN /\ ixWorkers' = [ixWorkers EXCEPT ![a] = FailAttempt(@)]
            /\ UNCHANGED <<backoffUntil, outbound>>
       ELSE /\ outbound.rateLimits < MaxRateLimits
            /\ backoffUntil' = trigger(backoffUntil, now, TriggerArg(resp.header))
            /\ outbound' = [outbound EXCEPT !.rateLimits = @ + 1,
                                            !.limited = [at |-> now, retryAfter |-> retryAfter(resp.header)]]
            /\ ixWorkers' = [ixWorkers EXCEPT ![a] = FailAttempt(@)]
    /\ UNCHANGED <<transfers, now, watched, runningKeys>>
    /\ UNCHANGED IndexerUnchanged

\* A retry delay of fetchUpdates or the poll sleep of the worker ends.
DelayEnds(a) ==
    /\ ixWorkers[a].pc = "delay"
    /\ ixWorkers' = [ixWorkers EXCEPT ![a] = [@ EXCEPT !.pc = "wait"]]
    /\ UNCHANGED <<transfers, now, backoffUntil, watched, runningKeys, outbound>>
    /\ UNCHANGED IndexerUnchanged

\* A worker that persists the cursor of a page before it stores the page.
ProcessPageCursorFirst(a, db) ==
    /\ ixWorkers[a].pc = "page"
    /\ LET updates == ixWorkers[a].updates
           outgoing == OutgoingHashes(updates)
           indexed == BatchInsertResult(transfers, outgoing).inserted
           maxTime == MaxUpdateTime(updates)
       IN IF db = "cursorFails"
          THEN /\ ixWorkers' = [ixWorkers EXCEPT ![a] = DeadFiber]
               /\ UNCHANGED <<transfers, watched>>
          ELSE /\ watched' = updateCursor(watched, a, maxTime)
               /\ IF db = "insertFails"
                  THEN /\ outgoing # {}
                       /\ ixWorkers' = [ixWorkers EXCEPT ![a] = DeadFiber]
                       /\ UNCHANGED transfers
                  ELSE /\ transfers' = insertTransfersBatch(transfers, outgoing)
                       /\ ixWorkers' = [ixWorkers EXCEPT ![a] =
                                          [@ EXCEPT !.pc = IF indexed > 0 THEN "wait" ELSE "delay",
                                                    !.cursor = maxTime, !.updates = <<>>]]
    /\ UNCHANGED <<now, backoffUntil, runningKeys, outbound>>
    /\ UNCHANGED IndexerUnchanged

\* runAddressWorker with a page of updates: processPage (insertTransfersBatch
\* of the outgoing transfers), cursor = maxTime, updateCursor, then the next
\* iteration at once when something was inserted and after the poll sleep
\* otherwise.  db = "insertFails" / "cursorFails": the DbQueryError of the
\* insert / of updateCursor ends the worker.
ProcessPage(a, db) ==
    /\ ixWorkers[a].pc = "page"
    /\ LET updates == ixWorkers[a].updates
           outgoing == OutgoingHashes(updates)
           indexed == BatchInsertResult(transfers, outgoing).inserted
           maxTime == MaxUpdateTime(updates)
       IN IF db = "insertFails"
          THEN /\ outgoing # {}
               /\ ixWorkers' = [ixWorkers EXCEPT ![a] = DeadFiber]
               /\ UNCHANGED <<transfers, watched>>
          ELSE /\ transfers' = insertTransfersBatch(transfers, outgoing)
               /\ IF db = "cursorFails"
                  THEN /\ ixWorkers' = [ixWorkers EXCEPT ![a] = DeadFiber]
                       /\ UNCHANGED watched
                  ELSE /\ watched' = updateCursor(watched, a, maxTime)
                       /\ ixWorkers' = [ixWorkers EXCEPT ![a] =
                                          [@ EXCEPT !.pc = IF indexed > 0 THEN "wait" ELSE "delay",
                                                    !.cursor = maxTime, !.updates = <<>>]]
    /\ UNCHANGED <<now, backoffUntil, runningKeys, outbound>>
    /\ UNCHANGED IndexerUnchanged

\* One pass of the sync loop of runIndexerService: findActiveAddresses,
\* FiberMap.run for every active address not in runningKeys, FiberMap.remove
\* for every address in runningKeys that is not active.
Reconcile ==
    LET active == findActiveAddresses(watched)
        start == active \ runningKeys
        stop == (runningKeys \cup start) \ active
    IN /\ ixWorkers' = [a \in WatchedSet |->
                          IF a \in start THEN StartFiber(watched[a].lastIndexedTime)
                          ELSE IF a \in stop THEN NoFiber
                          ELSE ixWorkers[a]]
       /\ runningKeys' = (runningKeys \cup start) \ stop
       /\ UNCHANGED <<transfers, now, backoffUntil, watched, outbound>>
       /\ UNCHANGED IndexerUnchanged

\* An operation on the watched_addresses collection (HTTP API, seeding).
AddressOp(op, a) ==
    /\ watched' = IF op = "add" THEN addWatchedAddress(watched, a)
                  ELSE IF op = "deactivate" THEN deactivateAddress(watched, a)
                  ELSE IF op = "activate" THEN activateAddress(watched, a)
                  ELSE resetAddress(watched, a)
    /\ watched' # watched
    /\ UNCHANGED <<transfers, now, backoffUntil, ixWorkers, runningKeys, outbound>>
    /\ UNCHANGED IndexerUnchanged

\* The moments the clock is observed at: the wake-up times of the sleeping
\* workers and the backoff deadline.
TimePoints ==
    { ixWorkers[a].wakeAt : a \in { x \in WatchedSet : ixWorkers[x].pc = "backoff" } }
      \cup (IF backoffUntil.nan THEN {} ELSE {backoffUntil.v})

\* Time passes.
Tick(t) ==
    /\ t > now
    /\ now' = t
    /\ UNCHANGED <<transfers, backoffUntil, ixWorkers, watched, runningKeys, outbound>>
    /\ UNCHANGED IndexerUnchanged

\* A block fetcher of the matcher issues a request (rpcBatch of the RPC
\* fetcher, fetchBlock of the object-store fetcher); neither reads the
\* backoff deadline.
FetcherCall(who) ==
    /\ outbound.lastCall # [who |-> who, at |-> now]
    /\ outbound' = [outbound EXCEPT !.lastCall = [who |-> who, at |-> now]]
    /\ UNCHANGED <<transfers, now, backoffUntil, ixWorkers, watched, runningKeys>>
    /\ UNCHANGED IndexerUnchanged

\* The state the matcher is left in while the indexer is observed.
MatcherOff ==
    /\ systemTxs = {}
    /\ bgPending = {}
    /\ chain = MatcherChain
    /\ queue = <<>>
    /\ queuedHashes = <<>>
    /\ fetcherRef = "s3"
    /\ counters = [matched |-> 0, failed |-> 0, errors |-> 0]
    /\ prod = IdleProducer
    /\ workers = [w \in Workers |-> IdleWorker]
    /\ find = NoFind

\* The indexer service from its start: one address seeded from the
\* configuration, the other added later, without rate limiting.
InitIndexer ==
    /\ MatcherOff
    /\ StoreOff
    /\ transfers = [h \in TransferIds |-> Null]
    /\ now = START_TIME
    /\ backoffUntil = Num(0)
    /\ ixWorkers = [a \in WatchedSet |-> NoFiber]
    /\ watched = [a \in WatchedSet |-> IF a = USER_A THEN WatchedDoc(0, TRUE) ELSE Null]
    /\ runningKeys = {}
    /\ outbound = NoOutbound

NextIndexer ==
    \/ Reconcile
    \/ \E op \in {"add", "deactivate", "activate", "reset"}, a \in WatchedSet : AddressOp(op, a)
    \/ \E a \in WatchedSet : BackoffWait(a, 0)
    \/ \E a \in WatchedSet : FetchRequest(a)
    \/ \E a \in WatchedSet, resp \in {Ok, Failure} : FetchResponse(a, resp)
    \/ \E a \in WatchedSet : DelayEnds(a)
    \/ \E a \in WatchedSet, db \in {"ok", "insertFails", "cursorFails"} : ProcessPage(a, db)

SpecIndexer == InitIndexer /\ [][NextIndexer]_vars

\* The workers of two active addresses under rate limiting, with the block
\* fetchers of the matcher issuing requests of their own.
InitBackoff ==
    /\ MatcherOff
    /\ StoreOff
    /\ transfers = [h \in TransferIds |-> Null]
    /\ now = START_TIME
    /\ backoffUntil = Num(0)
    /\ ixWorkers = [a \in WatchedSet |-> StartFiber(0)]
    /\ watched = [a \in WatchedSet |-> WatchedDoc(0, TRUE)]
    /\ runningKeys = WatchedSet
    /\ outbound = NoOutbound

NextBackoff ==
    \/ \E a \in WatchedSet, jitter \in Jitters : BackoffWait(a, jitter)
    \/ \E a \in WatchedSet : BackoffWake(a)
    \/ \E a \in WatchedSet : FetchRequest(a)
    \/ \E a \in WatchedSet, resp \in {Ok, Failure} \cup RateLimited : FetchResponse(a, resp)
    \/ \E a \in WatchedSet : DelayEnds(a)
    \/ \E a \in WatchedSet : ProcessPage(a, "ok")
    \/ \E t \in TimePoints : Tick(t)
    \/ \E who \in {"rpc", "s3"} : FetcherCall(who)

SpecBackoff == InitBackoff /\ [][NextBackoff]_vars

(***************************************************************************)
(* insertTransfersBatch observed document by document: insertMany with     *)
(* ordered: false writes the documents of a batch one at a time, in any    *)
(* order, and two calls in progress at once interleave their writes.       *)
(***************************************************************************)
Callers == {1, 2}

\* The batches the calls are made with: every sequence of at most MaxBatch
\* transfers, repeated hypercoreHashes included.
Batches == UNION { [1..n -> TransferIds] : n \in 0..MaxBatch }

\* The stores the calls start from: empty, or holding a failed and a matched
\* transfer.
InitialStores ==
    LET empty == [h \in TransferIds |-> Null]
        found == [hash |-> "A", explorerHash |-> "xA", block |-> 3, blockHash |-> <<"block", 3>>,
                  blockTime |-> 2000, contractAddress |-> Null]
    IN { empty,
         markTransferMatched(markTransferFailed(insertTransfersBatch(empty, {"t1", "t2"}), "t1", 0),
                             "t2", found) }

IdleCall == [pc |-> "idle", todo |-> {}, inserted |-> 0, writeErrors |-> 0, otherErrors |-> 0,
             after |-> {}]

InsertUnchanged == <<systemTxs, bgPending, chain, queue, queuedHashes, fetcherRef,
                     counters, prod, workers, find, IndexerVars, anchorLog, program, fetchCall,
                     estimate>>

\* insertTransfersBatch(transfers) is called: the empty batch returns at once.
\* after: the calls that had returned when this one started.
InsertStart(c) ==
    /\ inserts.calls[c].pc = "idle"
    /\ inserts' = [inserts EXCEPT !.calls[c] =
                     [IdleCall EXCEPT !.pc = IF Len(inserts.batch) = 0 THEN "done" ELSE "running",
                                      !.todo = DOMAIN inserts.batch,
                                      !.after = { d \in Callers : inserts.calls[d].pc = "done" }]]
    /\ UNCHANGED transfers
    /\ UNCHANGED InsertUnchanged

\* insertMany writes document i of the batch: inserted, rejected by the
\* unique index on hypercoreHash (write error 11000), or, with ok = FALSE,
\* rejected for another reason.
InsertDoc(c, i, ok) ==
    /\ inserts.calls[c].pc = "running"
    /\ i \in inserts.calls[c].todo
    /\ LET h == inserts.batch[i]
           r == BatchInsertResult(transfers, {h})
       IN IF ok
          THEN /\ transfers' = insertTransfersBatch(transfers, {h})
               /\ inserts' = [inserts EXCEPT !.calls[c].todo = @ \ {i},
                                             !.calls[c].inserted = @ + r.inserted,
                                             !.calls[c].writeErrors = @ + r.duplicates]
          ELSE /\ inserts' = [inserts EXCEPT !.calls[c].todo = @ \ {i},
                                             !.calls[c].otherErrors = @ + 1]
               /\ UNCHANGED transfers
    /\ UNCHANGED InsertUnchanged

\* insertMany is through: the call returns {inserted, duplicates} when every
\* write error is a duplicate key error and fails with DbQueryError otherwise.
InsertReturn(c) ==
    /\ inserts.calls[c].pc = "running"
    /\ inserts.calls[c].todo = {}
    /\ inserts' = [inserts EXCEPT !.calls[c].pc =
                     IF inserts.calls[c].otherErrors > 0 THEN "failed" ELSE "done"]
    /\ UNCHANGED transfers
    /\ UNCHANGED InsertUnchanged

InitInsert ==
    /\ MatcherOff
    /\ IndexerOff
    /\ anchorLog = <<>>
    /\ program = ProgramOff
    /\ fetchCall = FetchOff
    /\ estimate = EstimateOff
    /\ transfers \in InitialStores
    /\ \E batch \in Batches :
         inserts = [batch |-> batch, initial |-> transfers, calls |-> [c \in Callers |-> IdleCall]]

NextInsert ==
    \/ \E c \in Callers : InsertStart(c)
    \/ \E c \in Callers, i \in 1..MaxBatch, ok \in BOOLEAN : InsertDoc(c, i, ok)
    \/ \E c \in Callers : InsertReturn(c)

SpecInsert == InitInsert /\ [][NextInsert]_vars

(***************************************************************************)
(* storeBlocksSystemTxs called with any batches of blocks, in any order.   *)
(***************************************************************************)
\* The batches of blocks a call is made with: the runs of at most BATCH_SIZE
\* consecutive blocks of the chain.
BlockRuns(ch) ==
    { lo..hi : lo \in DOMAIN ch, hi \in DOMAIN ch } \ {{}}

AnchorBatches(ch) == { b \in BlockRuns(ch) : Cardinality(b) <= BATCH_SIZE }

\* The error insertMany(allDocs, {ordered: false}) throws: a bulk write error
\* with one duplicate key error (11000) per document whose hash is stored, or,
\* with fault, an error that is no write error; Null when it throws nothing.
InsertManyError(store, allDocs, fault) ==
    LET duplicates == { d \in allDocs : \E e \in store : e.hash = d.hash }
    IN IF fault THEN [code |-> 0, writeErrors |-> <<>>]
       ELSE IF duplicates = {} THEN Null
       ELSE [code |-> 11000, writeErrors |-> [i \in 1..Cardinality(duplicates) |-> 11000]]

\* A check that knows the direct duplicate key error only.
isDuplicateKeyErrorOnly(error) ==
    error.code = 11000 /\ error.writeErrors = <<>>

\* isBulkDuplicateKeyError(error)
isBulkDuplicateKeyError(error) ==
    \/ error.code = 11000
    \/ /\ Len(error.writeErrors) > 0
       /\ \A i \in DOMAIN error.writeErrors : error.writeErrors[i] = 11000

\* storeBlocksSystemTxs(blocks): nothing to do without system txs; otherwise
\* one insertMany, whose duplicate key errors count as success.
StoreBlocks(batch, fault) ==
    LET blocks == { chain[n] : n \in batch }
        allDocs == UNION { BlockDocs(b) : b \in blocks }
        error == InsertManyError(systemTxs, allDocs, fault)
    IN /\ Len(anchorLog) < MaxCalls
       /\ fault => allDocs # {}
       /\ systemTxs' = IF fault THEN systemTxs ELSE storeBlocksSystemTxs(systemTxs, blocks)
       /\ anchorLog' = Append(anchorLog,
                              [batch |-> batch, fault |-> fault,
                               result |-> IF allDocs = {} \/ error = Null THEN "ok"
                                          ELSE IF isBulkDuplicateKeyError(error) THEN "ok"
                                          ELSE "DbQueryError"])
       /\ UNCHANGED <<transfers, bgPending, chain, queue, queuedHashes, fetcherRef,
                      counters, prod, workers, find, IndexerVars, inserts, program, fetchCall,
                      estimate>>

InitAnchors ==
    /\ IndexerOff
    /\ StoreOff
    /\ transfers = [h \in TransferIds |-> Null]
    /\ bgPending = {}
    /\ queue = <<>>
    /\ queuedHashes = <<>>
    /\ fetcherRef = "s3"
    /\ counters = [matched |-> 0, failed |-> 0, errors |-> 0]
    /\ prod = IdleProducer
    /\ workers = [w \in Workers |-> IdleWorker]
    /\ find = NoFind
    /\ chain \in FindChains
    /\ systemTxs = {}

NextAnchors == \E batch \in AnchorBatches(chain), fault \in BOOLEAN : StoreBlocks(batch, fault)

SpecAnchors == InitAnchors /\ [][NextAnchors]_vars

(***************************************************************************)
(* Properties of the matcher pool (specification Spec).                    *)
(***************************************************************************)
Stored(h) == transfers[h] # Null
Pending(h) == Stored(h) /\ transfers[h].status = "pending"
Matched(h) == Stored(h) /\ transfers[h].status = "matched"
InFlight(h) == \E w \in Workers : workers[w].pc = "process" /\ workers[w].transfer = h
EvmFields == {"hyperevmHash", "hyperevmExplorerHash", "hyperevmBlock",
              "hyperevmBlockHash", "hyperevmTime"}

\* C1: the document of a stored transfer changes only while its status is
\* PENDING, and then to MATCHED or FAILED; in particular nothing changes the
\* status or the EVM fields of a MATCHED transfer.
C1_OnlyPendingChanges ==
    [][\A h \in TransferIds :
         (Stored(h) /\ transfers'[h] # transfers[h])
            => /\ transfers[h].status = "pending"
               /\ transfers'[h].status \in {"matched", "failed"}]_vars

\* C2 as claimed: a MATCHED transfer has all six EVM fields (contractAddress
\* included) non-null and a PENDING transfer has all six null.
C2_AllSixFields ==
    \A h \in TransferIds :
       /\ Matched(h) => \A f \in EvmFields \cup {"contractAddress"} : transfers[h][f] # Null
       /\ Pending(h) => \A f \in EvmFields \cup {"contractAddress"} : transfers[h][f] = Null

\* C2 amended: a MATCHED transfer has internal hash, explorer hash, block
\* number, block hash and block time non-null (contractAddress is null for a
\* native transfer), and a PENDING transfer has all six fields null.
C2_MatchedHasEvmFields ==
    \A h \in TransferIds :
       /\ Matched(h) => \A f \in EvmFields : transfers[h][f] # Null
       /\ Pending(h) => \A f \in EvmFields \cup {"contractAddress"} : transfers[h][f] = Null

\* C2 witness: one transfer has been marked MATCHED while another is PENDING.
C2_Witness == \E h, g \in TransferIds : Matched(h) /\ Pending(g)

\* C4: once a consumer's processing of a transfer has ended with outcome
\* error and no producer iteration is in progress, the hash is not in the
\* dedup set.  A PENDING transfer that is in the dedup set was offered, and
\* when it is no longer queued or in flight its processing has ended, with
\* outcome error since it is still PENDING.
C4_ErrorLeavesDedupSet ==
    \A h \in TransferIds :
       (Pending(h) /\ h \notin Range(queue) /\ ~InFlight(h) /\ prod.pc \in {"check", "sleep"})
          => h \notin Range(queuedHashes)

\* C5: for a transfer in flight, every way its search can end in a timeout,
\* a fetch error or another failure that is not NotFound gives outcome error
\* and a persistence write that leaves the transfer store as it is; every
\* other way gives outcome matched or failed.
C5_ErrorWritesNothing ==
    \A w \in Workers :
       workers[w].pc = "process" =>
          \A o \in TimedFindOutcomes(CoreTransfers[workers[w].transfer], systemTxs, chain,
                                     workers[w].fetcher, BOOLEAN) :
             IF \/ o.result.type = "timeout"
                \/ (o.result.type = "error" /\ o.result.tag # "NotFoundError")
             THEN /\ Outcome(o.result) = "error"
                  /\ processTransferWrite(transfers, workers[w].transfer, o.result) = transfers
             ELSE Outcome(o.result) \in {"matched", "failed"}

\* C5 witness: a processing has ended with outcome error, the transfer is
\* still PENDING, and a transfer is in flight that was fetched with RPC.
C5_Witness ==
    /\ counters.errors >= 1
    /\ \E h \in TransferIds : Pending(h) /\ ~InFlight(h)
    /\ \E w \in Workers : workers[w].pc = "process" /\ workers[w].fetcher = "rpc"

\* C8: no two distinct MATCHED transfers hold the same EVM internal hash.
C8_OneToOne ==
    \A h, g \in TransferIds :
       (h # g /\ Matched(h) /\ Matched(g))
          => transfers[h].hyperevmHash # transfers[g].hyperevmHash

\* C3: under weak fairness of the producer and of every consumer, and with
\* storage reads succeeding, every transfer that is ever stored is at some
\* time dequeued by a consumer.
C3_EventuallyDequeued == \A h \in TransferIds : ([]~Stored(h)) \/ <>InFlight(h)

(***************************************************************************)
(* Properties of findEvmHash (specification SpecFind).                     *)
(***************************************************************************)
\* The match predicate of a system transaction (or anchor) for a transfer.
Satisfies(tx, transfer) ==
    /\ normalizeAddress(tx.from) = normalizeAddress(transfer.systemAddress)
    /\ normalizeAddress(tx.assetRecipient) = normalizeAddress(transfer.user)
    /\ tx.amountWei = parseAmount(transfer.amount, EvmDecimalsOf(transfer.systemAddress))

ChainTxs(ch) ==
    UNION { { [block |-> ch[n], tx |-> tx] : tx \in Range(ch[n].systemTxs) } : n \in DOMAIN ch }

\* The stored anchors that match the transfer inside the cache window.
CachedMatches(store, transfer) ==
    { d \in store : /\ Satisfies(d, transfer)
                    /\ d.blockTimestamp >= transfer.hypercoreTime - DB_SEARCH_BEFORE_MS
                    /\ d.blockTimestamp <= transfer.hypercoreTime + DB_SEARCH_WINDOW_MS }

\* Block timestamps that do not decrease with the block number.
MonotoneTimestamps(ch) ==
    \A i, j \in DOMAIN ch : i <= j => ch[i].timestamp <= ch[j].timestamp

FindDone == find.pc = "done"
FindSucceeded == FindDone /\ find.result.type = "success"

\* C6: with a fetcher that returns every requested block or fails (the
\* object-store fetcher) and timestamps that grow with the block number, a
\* NotFound that follows the convergence of the bounds means that no block
\* of the chain holds a system transaction matching the transfer.
C6_ConvergedMeansAbsent ==
    (/\ FindDone
     /\ find.fetcher = "s3"
     /\ MonotoneTimestamps(chain)
     /\ find.result.type = "error"
     /\ find.result.tag = "NotFoundError"
     /\ find.fs # Null
     /\ find.fs.why = "converged")
       => \A m \in ChainTxs(chain) : ~Satisfies(m.tx, find.transfer)

\* C7: the transaction of a successful result, from the cache or from the
\* scan, is a transaction of the chain in the block the result names and
\* satisfies the match predicate for the transfer.
C7_ResultSatisfiesPredicate ==
    FindSucceeded =>
       \E m \in ChainTxs(chain) :
          /\ m.tx.hash = find.result.result.hash
          /\ m.block.number = find.result.result.block
          /\ Satisfies(m.tx, find.transfer)

\* C7 witness: a cache hit on the second call after a scan hit on the first.
C7_Witness ==
    /\ FindSucceeded
    /\ find.call = 2
    /\ find.probe = "hit"
    /\ find.first.probe # "hit"

\* What C9 promises of the step that ends the cache probe.
CacheHitReturn(f, hits) ==
    /\ f.pc = "done"
    /\ f.fs = Null
    /\ f.result.type = "success"
    /\ f.result.result.rounds = 0
    /\ f.result.result.blocksSearched = 0
    /\ \E d \in hits : /\ d.hash = f.result.result.hash
                       /\ \A e \in hits : d.blockTimestamp <= e.blockTimestamp

C10_SecondCallHitsCache ==
    [][(/\ find.pc = "probe"
        /\ find'.pc # "probe"
        /\ find.call = 2
        /\ find.first.probe = "miss"
        /\ find'.probe \in {"hit", "miss"}
        /\ \E d \in systemTxs : d.hash = find.first.result.result.hash)
          => /\ find'.pc = "done"
             /\ find'.result.type = "success"
             /\ find'.result.result.rounds = 0
             /\ find'.result.result.hash = find.first.result.result.hash]_vars

\* C11: every iteration of the search loop either ends the call (result,
\* NotFound or fetch error) or advances the round counter by one below
\* MAX_ROUNDS, whatever the bounds and whatever the fetcher does, and the
\* number of fetch calls of a call never exceeds MAX_ROUNDS.
C11_FindTerminates ==
    [][(find.pc = "round" /\ find' # find)
          => /\ find'.fs.fetchCalls <= find.fs.fetchCalls + 1
             /\ find'.fs.fetchCalls <= MAX_ROUNDS
             /\ \/ /\ find'.pc = "done"
                   /\ find'.result.type \in {"success", "error"}
                \/ /\ find'.pc = "round"
                   /\ find'.fs.round = find.fs.round + 1
                   /\ find'.fs.round < MAX_ROUNDS]_vars

\* C11 witness: a call that ended with NotFound after MAX_ROUNDS fetch calls.
C11_Witness ==
    /\ FindDone
    /\ find.fs # Null
    /\ find.fs.why = "exhausted"
    /\ find.fs.fetchCalls = MAX_ROUNDS

(***************************************************************************)
(* Further properties of the matcher pool (specification Spec).            *)
(***************************************************************************)
Failed(h) == Stored(h) /\ transfers[h].status = "failed"

\* C12: a transfer that has left PENDING (marked FAILED after NotFound, or
\* MATCHED) never becomes PENDING again, every getPendingTransfers call
\* returns only transfers that are PENDING when it reads, and a refill offers
\* only hashes of its own getPendingTransfers result; so no
\* getPendingTransfers call after the mark returns the transfer and no
\* refill that reads after the mark enqueues it.
C12_FailedNotSurfaced ==
    [][/\ \A h \in TransferIds :
            (Stored(h) /\ ~Pending(h)) => transfers'[h].status # "pending"
       /\ (prod.pc = "fetch" /\ prod'.pc = "snapshot")
             => \A h \in Range(prod'.pending) : Pending(h)
       /\ Len(queue') > Len(queue) =>
            /\ prod.pc = "offer"
            /\ queue'[Len(queue')] = Head(prod.pending)]_vars

\* C12 witness: a refill has read the pending transfers while a transfer
\* marked FAILED after NotFound is in the store with others still PENDING.
C12_Witness ==
    /\ prod.pc = "snapshot"
    /\ prod.pending # <<>>
    /\ \E h \in TransferIds : Failed(h) /\ CoreTransfers[h].hypercoreTime < CoreTransfers[prod.pending[1]].hypercoreTime

\* C13 as claimed: every producer iteration, whatever the queue size it
\* finds, leaves the object-store fetcher active when more than
\* BACKFILL_THRESHOLD transfers are PENDING and the RPC fetcher otherwise
\* (iterations whose read of the pending count failed, which go to sleep
\* below the watermark with transfers pending, are left aside).
C13_SwitchWhateverQueueSize ==
    [][(/\ prod.pc = "check"
        /\ prod'.pc # "check"
        /\ ~(Len(queue) < QUEUE_LOW_WATERMARK /\ prod'.pc = "sleep"
               /\ PendingCount(transfers) > 0))
          => fetcherRef' = IF PendingCount(transfers) > BACKFILL_THRESHOLD
                           THEN "s3" ELSE "rpc"]_vars

\* C13 amended: an iteration that finds the queue below the low watermark
\* sets the fetcher from the pending count it reads (zero when the read
\* fails): object store above BACKFILL_THRESHOLD, RPC otherwise; an
\* iteration that finds the queue at or above the watermark leaves the
\* fetcher and the queue as they are.
C13_SwitchBelowWatermark ==
    [][(prod.pc = "check" /\ prod'.pc # "check")
          => IF Len(queue) < QUEUE_LOW_WATERMARK
             THEN \/ fetcherRef' = IF PendingCount(transfers) > BACKFILL_THRESHOLD
                                   THEN "s3" ELSE "rpc"
                  \/ fetcherRef' = "rpc" /\ prod'.pc = "sleep"
             ELSE fetcherRef' = fetcherRef /\ queue' = queue /\ prod'.pc = "sleep"]_vars

\* C13 witness: an iteration has switched from the initial object-store
\* fetcher to RPC with a pending count positive and not above the threshold.
C13_Witness ==
    /\ prod.pc = "fetch"
    /\ fetcherRef = "rpc"
    /\ PendingCount(transfers) > 0
    /\ PendingCount(transfers) <= BACKFILL_THRESHOLD

(***************************************************************************)
(* Properties of the shared backoff (specification SpecBackoff).           *)
(***************************************************************************)
\* C14: the shared backoff deadline never decreases: every step, a Trigger
\* included, leaves the deadline at least as large as it was before.
C14_DeadlineNeverDecreases ==
    [][GeqJs(backoffUntil', backoffUntil)]_vars

\* A request leaves the process in this step: the POST of an indexer worker,
\* or a request of one of the block fetchers.
OutboundCall ==
    \/ \E a \in WatchedSet : ixWorkers[a].pc = "request" /\ ixWorkers'[a].pc = "inflight"
    \/ outbound'.lastCall # outbound.lastCall

\* C15: after a Trigger with retryAfter = R, every later outbound network
\* call of every component (the indexer's fetch, the RPC batch call, the
\* object-store GET) is issued only once at least R has elapsed since the
\* Trigger.
C15_NoCallBeforeRetryAfter ==
    [][(/\ OutboundCall
        /\ outbound.limited # Null
        /\ ~outbound.limited.retryAfter.nan)
          => now >= outbound.limited.at + outbound.limited.retryAfter.v]_vars

\* C16: Wait returns only when the clock has reached the deadline in force at
\* that moment, whatever another worker's Trigger did while the caller was
\* inside Wait.
C16_WaitReturnsAfterDeadline ==
    [][\A a \in WatchedSet :
          (/\ ixWorkers[a].pc \in {"wait", "backoff"}
           /\ ixWorkers'[a].pc = "request"
           /\ ~backoffUntil.nan)
            => GeqJs(Num(now), backoffUntil)]_vars

(***************************************************************************)
(* Properties of the indexer service (specification SpecIndexer).          *)
(***************************************************************************)
\* C17 as claimed: the persisted lastIndexedTime of a watched address never
\* decreases, whatever step is taken: a page, a worker stop or restart, or an
\* address operation (add, deactivate, activate, reset).
C17_CursorNeverDecreases ==
    [][\A a \in WatchedSet :
          watched[a] # Null
            => /\ watched'[a] # Null
               /\ watched'[a].lastIndexedTime >= watched[a].lastIndexedTime]_vars

\* C17, amended: the persisted lastIndexedTime of a watched address decreases
\* in no step but a reset of that address, which sets it to 0; pages, worker
\* stops and restarts, add, deactivate and activate leave it as it was or
\* larger.
C17_CursorDecreasesOnlyByReset ==
    [][\A a \in WatchedSet :
          watched[a] # Null
            => /\ watched'[a] # Null
               /\ \/ watched'[a].lastIndexedTime >= watched[a].lastIndexedTime
                  \/ /\ watched' = resetAddress(watched, a)
                     /\ watched'[a].lastIndexedTime = 0
                     /\ UNCHANGED <<ixWorkers, runningKeys, transfers>>]_vars

\* One address was reset while its worker had indexed up to its last update,
\* the other was added, indexed to its end, deactivated and its worker stopped.
C17_Witness ==
    /\ watched[USER_A] # Null
    /\ watched[USER_A].lastIndexedTime = 0
    /\ Running(USER_A)
    /\ ixWorkers[USER_A].cursor = 2800
    /\ watched[USER_B] # Null
    /\ watched[USER_B].lastIndexedTime = 4200
    /\ ~watched[USER_B].isActive
    /\ ixWorkers[USER_B].pc = "none"

\* C18: after every reconciliation pass a worker is running for every active
\* address and for no other address, also for an active address whose
\* previous worker ended with an error.
C18_WorkersMatchActiveAfterPass ==
    [][Reconcile
         => \A a \in WatchedSet :
               ixWorkers'[a].pc \notin {"none", "dead"} <=> a \in findActiveAddresses(watched)]_vars

(***************************************************************************)
(* Properties of insertTransfersBatch (specification SpecInsert).          *)
(***************************************************************************)
CallDone(c) == inserts.calls[c].pc = "done"

\* No document of either call met a write error other than a duplicate key.
OnlyDuplicateErrors == \A c \in Callers : inserts.calls[c].otherErrors = 0

\* The transfers of the batch the store did not hold before the calls.
NewInBatch == { h \in Range(inserts.batch) : inserts.initial[h] = Null }

\* C19 as claimed: of two calls with the same batch, made one after the other
\* or at the same time, the second reports inserted = 0 and
\* duplicates = |batch|.
C19_SecondCallInsertsNothing ==
    (OnlyDuplicateErrors /\ CallDone(1) /\ CallDone(2))
      => \E c \in Callers : /\ inserts.calls[c].inserted = 0
                            /\ inserts.calls[c].writeErrors = Len(inserts.batch)

\* C19, amended: a call made after a call with the same batch has returned
\* reports inserted = 0 and duplicates = |batch|; two calls in progress at the
\* same time share the inserts between them, each new transfer being inserted
\* by exactly one of them and reported as a duplicate by the other.  In both
\* cases no call fails because of duplicates, every transfer of the batch is
\* stored once, as PENDING when it is new, and the transfers stored before
\* keep their status and EVM fields.
C19_InsertIsIdempotent ==
    /\ \A h \in TransferIds :
          IF inserts.initial[h] # Null THEN transfers[h] = inserts.initial[h]
          ELSE transfers[h] \in {Null, PendingDoc}
    /\ \A c \in Callers :
          /\ inserts.calls[c].otherErrors = 0 => inserts.calls[c].pc # "failed"
          /\ CallDone(c) =>
               /\ inserts.calls[c].inserted + inserts.calls[c].writeErrors = Len(inserts.batch)
               /\ \A h \in Range(inserts.batch) : transfers[h] # Null
               /\ inserts.calls[c].after # {}
                    => /\ inserts.calls[c].inserted = 0
                       /\ inserts.calls[c].writeErrors = Len(inserts.batch)
    /\ (OnlyDuplicateErrors /\ CallDone(1) /\ CallDone(2))
         => inserts.calls[1].inserted + inserts.calls[2].inserted = Cardinality(NewInBatch)

\* Both calls have returned, the second made after the first: the batch held
\* a repeated new transfer and a transfer stored before.
C19_Witness ==
    /\ CallDone(1) /\ CallDone(2)
    /\ inserts.calls[2].after = {1}
    /\ inserts.batch = <<"t3", "t2", "t3">>
    /\ inserts.initial["t2"] # Null
    /\ inserts.calls[1].inserted = 1
    /\ inserts.calls[1].writeErrors = 2
    /\ inserts.calls[2].writeErrors = 3

(***************************************************************************)
(* Properties of storeBlocksSystemTxs (specification SpecAnchors).         *)
(***************************************************************************)
\* The blocks handed to the calls that reached the store.
BlocksStored == UNION { anchorLog[i].batch : i \in { j \in DOMAIN anchorLog : ~anchorLog[j].fault } }

\* C20: after any calls of storeBlocksSystemTxs, in any order, with any
\* repetition and overlap of their batches, the store holds, for every system
\* tx of a block handed to a call, exactly one anchor with the content built
\* from that block, and nothing else, so that the store depends on the set of
\* blocks only; and a call fails only when the insert failed for another
\* reason than duplicates.
C20_AnchorInsertsCommute ==
    /\ systemTxs = UNION { BlockDocs(chain[n]) : n \in BlocksStored }
    /\ \A d \in systemTxs, e \in systemTxs : d.hash = e.hash => d = e
    /\ \A i \in DOMAIN anchorLog : ~anchorLog[i].fault => anchorLog[i].result = "ok"

\* Two calls succeeded whose batches overlap in a block with system txs, the
\* second bringing new system txs as well.
C20_Witness ==
    /\ Len(anchorLog) = 2
    /\ anchorLog[1].result = "ok" /\ anchorLog[2].result = "ok"
    /\ \E n \in anchorLog[1].batch \cap anchorLog[2].batch : chain[n].systemTxs # <<>>
    /\ \E n \in anchorLog[2].batch \ anchorLog[1].batch : chain[n].systemTxs # <<>>
    /\ \E n \in anchorLog[1].batch \ anchorLog[2].batch : chain[n].systemTxs # <<>>

(***************************************************************************)
(* Further properties of the indexer service (specification SpecIndexer).  *)
(***************************************************************************)
\* The transfers a single uninterrupted run of the worker of address a stores
\* up to time upTo: the spot transfers of its ledger to a system address.
IndexedBy(a, upTo) ==
    { Ledger(a)[i].hash : i \in { j \in DOMAIN Ledger(a) :
                                    /\ Ledger(a)[j].hash \in TransferIds
                                    /\ Ledger(a)[j].time <= upTo } }

LastTime(a) == Ledger(a)[Len(Ledger(a))].time

\* C21: however often the worker of an address is run again, from the
\* persisted cursor or from 0, the stored transfers are those of a single
\* uninterrupted run: nothing but the outgoing transfers of the ledgers is
\* stored, none of them is missing up to the persisted cursor and up to the
\* cursor of the running worker, and a worker that has reached the end of the
\* ledger has all of them stored.
C21_RerunConverges ==
    /\ { h \in TransferIds : transfers[h] # Null }
         \subseteq UNION { IndexedBy(a, LastTime(a)) : a \in WatchedSet }
    /\ \A a \in WatchedSet :
          /\ watched[a] # Null
               => \A h \in IndexedBy(a, watched[a].lastIndexedTime) : transfers[h] # Null
          /\ Running(a)
               => \A h \in IndexedBy(a, ixWorkers[a].cursor) : transfers[h] # Null

\* A worker run again from cursor 0 holds a page of transfers that are all
\* stored already, the earlier run having reached the end of the ledger.
C21_Witness ==
    /\ ixWorkers[USER_A].pc = "page"
    /\ ixWorkers[USER_A].cursor = 0
    /\ \A h \in IndexedBy(USER_A, LastTime(USER_A)) : transfers[h] # Null
    /\ transfers["t1"].status = "pending"

(***************************************************************************)
(* Further properties of findEvmHash (specification SpecFind).             *)
(***************************************************************************)
\* C22: on a chain whose block timestamps do not decrease with the block
\* number, whatever anchors are inserted between the two lookups of
\* findBracketingAnchors, a before and an after that both exist satisfy
\* before.blockTimestamp <= t < after.blockTimestamp and
\* before.blockNumber < after.blockNumber.
C22_BracketOrdered ==
    [][(/\ find.pc = "bracket2"
        /\ find'.pc = "round"
        /\ MonotoneTimestamps(chain)
        /\ find'.bracket.before # Null
        /\ find'.bracket.after # Null)
          => /\ find'.bracket.before.blockTimestamp <= find.transfer.hypercoreTime
             /\ find.transfer.hypercoreTime < find'.bracket.after.blockTimestamp
             /\ find'.bracket.before.blockNumber < find'.bracket.after.blockNumber]_vars

\* Both anchors exist, and the one that was read first is no longer what its
\* query would return: anchors were inserted after it was read.
C22_Witness ==
    /\ find.pc = "round"
    /\ find.fs.round = 0
    /\ MonotoneTimestamps(chain)
    /\ find.bracket # Null
    /\ find.bracket.before # Null
    /\ find.bracket.after # Null
    /\ \/ find.bracket.before \notin AnchorsBefore(systemTxs, find.transfer.hypercoreTime)
       \/ find.bracket.after \notin AnchorsAfter(systemTxs, find.transfer.hypercoreTime)

(***************************************************************************)
(* The queue bound (specification Spec).                                   *)
(***************************************************************************)
\* C23: the matcher queue never holds more than QUEUE_CAPACITY transfers: a
\* refill asks for at most min(QUEUE_CAPACITY - size, EVM_MATCHER_BATCH_SIZE)
\* transfers and what it still has to enqueue always fits into the room left,
\* and only a consumer's take removes from the queue, the head and nothing
\* else.
C23_QueueBounded ==
    /\ [](/\ Len(queue) <= QUEUE_CAPACITY
          /\ prod.pc = "fetch"
               => prod.batchSize <= Min(QUEUE_CAPACITY - Len(queue), EVM_MATCHER_BATCH_SIZE)
          /\ prod.pc \in {"snapshot", "offer"}
               => /\ Len(prod.pending) + Len(prod.newHashes) <= EVM_MATCHER_BATCH_SIZE
                  /\ Len(queue) + Len(prod.pending) <= QUEUE_CAPACITY)
    /\ [][Len(queue') < Len(queue)
            => /\ queue' = Tail(queue)
               /\ \E w \in Workers : /\ workers[w].pc = "take"
                                     /\ workers'[w].pc = "process"
                                     /\ workers'[w].transfer = Head(queue)]_vars

\* The queue is full after a refill that enqueued a whole batch.
C23_Witness ==
    /\ Len(queue) = QUEUE_CAPACITY
    /\ prod.pc = "offer"
    /\ prod.pending = <<>>
    /\ Len(prod.newHashes) = EVM_MATCHER_BATCH_SIZE

\* ---------------------------------------------------------------------------
\* The main program: initialize, the three service fibers, the finalizer that
\* disconnects the storage connection, and the tasks the services spawn.
\* ---------------------------------------------------------------------------

MaxBackground == 2

Services == {"indexer", "matcher", "stats"}

\* The steps of initialize, in order; every failure but the last one's is fatal.
InitializeSteps ==
    << "connectDatabase", "ensureIndexes", "seedWatchedAddresses",
       "getTransferStats", "initializeAssetCache", "seedAnchorCache" >>

FatalSteps == { InitializeSteps[i] : i \in 1..Len(InitializeSteps) } \ {"seedAnchorCache"}

StartProgram ==
    [ pc |-> "initialize", step |-> 1, cause |-> "none",
      fibers |-> [s \in Services |-> "none"],
      consumers |-> {}, producer |-> FALSE, statsLogger |-> FALSE,
      addressWorkers |-> {}, background |-> 0, lateStores |-> 0,
      disconnects |-> 0 ]

ProgramUnchanged == <<transfers, systemTxs, bgPending, chain, queue, queuedHashes,
                      fetcherRef, counters, prod, workers, find, IndexerVars,
                      inserts, anchorLog, fetchCall, estimate>>

\* The scope of the program (Effect.scoped) is still open.
ScopeOpen == program.pc \in {"initialize", "fork", "join", "finalizer", "scopeClose"}

\* One step of initialize: a fatal failure leaves main, which runs the finalizer.
InitializeStep(ok) ==
    /\ program.pc = "initialize"
    /\ program' =
         IF ok \/ InitializeSteps[program.step] \notin FatalSteps
         THEN IF program.step = Len(InitializeSteps)
              THEN [program EXCEPT !.pc = "fork"]
              ELSE [program EXCEPT !.step = @ + 1]
         ELSE [program EXCEPT !.pc = "finalizer", !.cause = "initFailed"]
    /\ UNCHANGED ProgramUnchanged

\* main forks the three services as children of its own fiber and joins them.
MainForks ==
    /\ program.pc = "fork"
    /\ program' = [program EXCEPT !.pc = "join",
                                  !.fibers = [s \in Services |-> "running"]]
    /\ UNCHANGED ProgramUnchanged

\* runMatcherService forks the consumers, the producer and the stats logger
\* as children of the matcher fiber.
RunMatcherService ==
    /\ program.pc \in {"join", "finalizer", "scopeClose"}
    /\ program.fibers["matcher"] = "running"
    /\ ~program.producer
    /\ program' = [program EXCEPT !.consumers = Workers, !.producer = TRUE,
                                  !.statsLogger = TRUE]
    /\ UNCHANGED ProgramUnchanged

\* The indexer controller starts the worker of an address in its FiberMap,
\* which lives in the scope of the program.
IndexerStartsWorker(a) ==
    /\ ScopeOpen
    /\ program.fibers["indexer"] = "running"
    /\ a \notin program.addressWorkers
    /\ program' = [program EXCEPT !.addressWorkers = @ \cup {a}]
    /\ UNCHANGED ProgramUnchanged

\* findActiveAddresses fails: the indexer service ends with the error.
IndexerServiceFails ==
    /\ ScopeOpen
    /\ program.fibers["indexer"] = "running"
    /\ program' = [program EXCEPT !.fibers["indexer"] = "failed"]
    /\ UNCHANGED ProgramUnchanged

\* Fiber.joinAll([indexerFiber, matcherFiber, statsFiber]) fails with the
\* failure of the indexer fiber; the matcher never ends and the stats fiber
\* swallows its errors.
JoinAllFails ==
    /\ program.pc = "join"
    /\ program.fibers["indexer"] = "failed"
    /\ program' = [program EXCEPT !.pc = "finalizer", !.cause = "serviceFailed"]
    /\ UNCHANGED ProgramUnchanged

\* The runtime interrupts the main fiber (SIGINT / SIGTERM).
ExternalInterrupt ==
    /\ program.pc \in {"initialize", "fork", "join"}
    /\ program' = [program EXCEPT !.pc = "finalizer", !.cause = "interrupt"]
    /\ UNCHANGED ProgramUnchanged

\* A consumer's Find fetched blocks: storeBlocksBackground starts the store
\* with Effect.runPromise, a root fiber of its own.
StoreBlocksBackground(c) ==
    /\ c \in program.consumers
    /\ program.background < MaxBackground
    /\ program' = [program EXCEPT !.background = @ + 1]
    /\ UNCHANGED ProgramUnchanged

\* A background store issues its insertMany and ends.
BackgroundStoreRuns ==
    /\ program.background > 0
    /\ program' = [program EXCEPT !.background = @ - 1,
                                  !.lateStores = IF program.pc = "exited" THEN @ + 1 ELSE @]
    /\ UNCHANGED ProgramUnchanged

\* The finalizer of mainWithShutdown: disconnectDatabase.
DisconnectDatabase ==
    /\ program.pc = "finalizer"
    /\ program' = [program EXCEPT !.pc = "scopeClose", !.disconnects = @ + 1]
    /\ UNCHANGED ProgramUnchanged

\* Effect.scoped closes the scope of the program: the FiberMap of the indexer
\* interrupts its workers.
ScopeCloses ==
    /\ program.pc = "scopeClose"
    /\ program' = [program EXCEPT !.pc = "windDown", !.addressWorkers = {}]
    /\ UNCHANGED ProgramUnchanged

\* The main fiber has its exit and interrupts the children it forked; a fiber
\* that ends interrupts its own children in the same way.
InterruptChild(s) ==
    /\ program.pc = "windDown"
    /\ program.fibers[s] = "running"
    /\ program' =
         IF s = "matcher"
         THEN [program EXCEPT !.fibers[s] = "interrupted", !.consumers = {},
                              !.producer = FALSE, !.statsLogger = FALSE]
         ELSE [program EXCEPT !.fibers[s] = "interrupted"]
    /\ UNCHANGED ProgramUnchanged

ProgramExits ==
    /\ program.pc = "windDown"
    /\ \A s \in Services : program.fibers[s] # "running"
    /\ program' = [program EXCEPT !.pc = "exited"]
    /\ UNCHANGED ProgramUnchanged

InitProgram ==
    /\ MatcherOff
    /\ IndexerOff
    /\ transfers = [h \in TransferIds |-> Null]
    /\ inserts = [pc |-> "off"]
    /\ anchorLog = <<>>
    /\ fetchCall = FetchOff
    /\ estimate = EstimateOff
    /\ program = StartProgram

ProgramShutdown ==
    \/ JoinAllFails
    \/ DisconnectDatabase
    \/ ScopeCloses
    \/ \E s \in Services : InterruptChild(s)
    \/ ProgramExits

NextProgram ==
    \/ \E ok \in BOOLEAN : InitializeStep(ok)
    \/ MainForks
    \/ RunMatcherService
    \/ \E a \in WatchedSet : IndexerStartsWorker(a)
    \/ IndexerServiceFails
    \/ ExternalInterrupt
    \/ \E c \in Workers : StoreBlocksBackground(c)
    \/ BackgroundStoreRuns
    \/ ProgramShutdown

SpecProgram == InitProgram /\ [][NextProgram]_vars /\ WF_vars(ProgramShutdown)

\* C24: on every termination path of the main program the finalizer that
\* disconnects the storage connection runs exactly once (never twice, and it
\* has run once the program has left the finalizer), and when it runs no
\* indexer, matcher or stats fiber is still running.
C24_DisconnectOnceAfterFibersInterrupted ==
    /\ [](/\ program.disconnects <= 1
          /\ program.pc \in {"scopeClose", "windDown", "exited"} => program.disconnects = 1)
    /\ (program.pc = "finalizer") ~> (program.pc = "exited")
    /\ [][program'.disconnects > program.disconnects
            => \A s \in Services : program.fibers[s] # "running"]_vars

\* C25: after a top-level cancellation has completed, no consumer, producer,
\* stats logger, indexer worker or background anchor store is running, and
\* no background store has written since.
C25_CancellationReachesEveryTask ==
    program.pc = "exited" =>
        /\ program.consumers = {}
        /\ ~program.producer
        /\ ~program.statsLogger
        /\ program.addressWorkers = {}
        /\ program.background = 0
        /\ program.lateStores = 0

\* ---------------------------------------------------------------------------
\* The indexer service without failures, under fair scheduling: the sync loop
\* keeps running and every worker keeps taking its steps.
\* ---------------------------------------------------------------------------

AddressWorkerStep(a) ==
    \/ BackoffWait(a, 0)
    \/ FetchRequest(a)
    \/ FetchResponse(a, Ok)
    \/ DelayEnds(a)
    \/ ProcessPage(a, "ok")

NextReset ==
    \/ Reconcile
    \/ \E op \in {"add", "deactivate", "activate", "reset"}, a \in WatchedSet : AddressOp(op, a)
    \/ \E a \in WatchedSet : AddressWorkerStep(a)

SpecReset ==
    /\ InitIndexer
    /\ [][NextReset]_vars
    /\ WF_vars(Reconcile)
    /\ \A a \in WatchedSet : WF_vars(AddressWorkerStep(a))

\* The document of the address is as resetAddress leaves it.
ResetApplied(a) ==
    /\ watched[a] # Null
    /\ watched[a].isActive
    /\ watched[a].lastIndexedTime = 0

\* The worker of the address has a ledger fetch with startTime 0 in flight.
FetchFromZero(a) == ixWorkers[a].pc = "inflight" /\ ixWorkers[a].cursor = 0

\* C26: once an address is reset (lastIndexedTime 0, isActive true) its
\* worker eventually issues a ledger fetch with startTime 0, unless the
\* address is deactivated meanwhile; also when a worker of the address was
\* running at the time of the reset.
C26_ResetReindexesFromZero ==
    \A a \in WatchedSet :
        ResetApplied(a) ~> (FetchFromZero(a) \/ a \notin findActiveAddresses(watched))

\* ---------------------------------------------------------------------------
\* The matcher pool with a storage that can fail the write of an outcome.
\* ---------------------------------------------------------------------------

\* processTransfer when Find succeeded or ended with NotFoundError and the
\* write of markTransferMatched / markTransferFailed fails with DbQueryError:
\* Effect.orDie turns the error into a defect, which leaves processTransfer
\* and the Effect.forever loop of the worker; the fiber ends before the
\* branch that updates the counters and the dedup set.
WorkerProcessDies(w, reads) ==
    /\ workers[w].pc = "process"
    /\ \E o \in FindOutcomes(CoreTransfers[workers[w].transfer], systemTxs, chain,
                             workers[w].fetcher, reads) :
         /\ Outcome(o.result) \in {"matched", "failed"}
         /\ bgPending' = bgPending \cup o.touched
    /\ workers' = [workers EXCEPT ![w] = [@ EXCEPT !.pc = "dead"]]
    /\ UNCHANGED <<transfers, systemTxs, chain, queue, queuedHashes, fetcherRef,
                   counters, prod, find, IndexerVars, StoreVars>>

NextWriteFaults ==
    \/ Next
    \/ \E w \in Workers : WorkerProcessDies(w, BOOLEAN)

SpecWriteFaults == Init /\ [][NextWriteFaults]_vars

\* C27: when Find succeeded or returned NotFound and the write of the outcome
\* fails with a storage error, the transfer is PENDING afterwards and its
\* hash is no longer in the dedup set, so that a later refill can enqueue it
\* again.
C27_WriteFailureIsTransient ==
    [][\A w \in Workers :
          (workers[w].pc = "process" /\ workers'[w].pc = "dead")
            => /\ transfers'[workers[w].transfer] # Null
               /\ transfers'[workers[w].transfer].status = "pending"
               /\ workers[w].transfer \notin Range(queuedHashes')]_vars

\* The blocks of the chain among the numbers the round in progress passes to
\* the fetcher.
FetchedInRound ==
    Range(BatchBlockNumbers(find.fs.lowerBound, find.fs.upperBound,
                            find.transfer.hypercoreTime)) \cap DOMAIN chain

\* C28: across the rounds of one Find call the bounds only tighten: the block
\* of the lower bound never decreases and the block of the upper bound never
\* increases (nor is an upper bound dropped); a bound changes only to a
\* strictly tighter fetched block, the largest fetched block with timestamp
\* <= coreTime for the lower bound and the smallest with timestamp > coreTime
\* for the upper bound; and the time of each bound is the timestamp of the
\* block it names.
C28_BoundsOnlyTighten ==
    [][(find.pc = "round" /\ find'.pc \in {"round", "done"}) =>
         LET lo == find.fs.lowerBound
             lo2 == find'.fs.lowerBound
             up == find.fs.upperBound
             up2 == find'.fs.upperBound
             t == find.transfer.hypercoreTime
             fetched == FetchedInRound
         IN /\ lo2.block >= lo.block
            /\ up # Null => (up2 # Null /\ up2.block <= up.block)
            /\ lo2 # lo => /\ lo2.block > lo.block
                           /\ lo2.block \in fetched
                           /\ chain[lo2.block].timestamp <= t
                           /\ \A n \in fetched : chain[n].timestamp <= t => n <= lo2.block
            /\ up2 # up => /\ up = Null \/ up2.block < up.block
                           /\ up2.block \in fetched
                           /\ chain[up2.block].timestamp > t
                           /\ \A n \in fetched : chain[n].timestamp > t => n >= up2.block
            /\ lo2.time = chain[lo2.block].timestamp
            /\ up2 # Null => up2.time = chain[up2.block].timestamp]_vars

\* A search that started from the default bounds has tightened both.
C28_Witness ==
    /\ find.pc \in {"round", "done"}
    /\ find.fs # Null
    /\ find.bracket = Null
    /\ find.fs.round >= 1
    /\ find.fs.lowerBound.block > SEED_ANCHOR.block
    /\ find.fs.upperBound # Null

\* C29: in every round of Find the block numbers passed to the fetcher are
\* contiguous, at most BATCH_SIZE, all >= 1, all >= the block of the lower
\* bound and, when there is an upper bound, all <= its block; and when the
\* upper bound lies at least two blocks above the lower bound the batch holds
\* a block strictly between the two.
C29_BatchWithinBounds ==
    find.pc = "round" =>
        LET lo == find.fs.lowerBound
            up == find.fs.upperBound
            nums == BatchBlockNumbers(lo, up, find.transfer.hypercoreTime)
        IN /\ Len(nums) <= BATCH_SIZE
           /\ \A i \in 1..Len(nums) :
                 /\ nums[i] >= 1
                 /\ nums[i] >= lo.block
                 /\ up # Null => nums[i] <= up.block
           /\ \A i \in 1..(Len(nums) - 1) : nums[i + 1] = nums[i] + 1
           /\ (up # Null /\ up.block >= lo.block + 2)
                 => \E i \in 1..Len(nums) : lo.block < nums[i] /\ nums[i] < up.block

\* A later round of a search whose bounds are more than one block apart, and
\* a round whose estimate lies within two blocks of the lower bound.
C29_Witness ==
    /\ find.pc = "round"
    /\ find.fs.round >= 1
    /\ find.fs.upperBound # Null
    /\ find.fs.upperBound.block >= find.fs.lowerBound.block + 2
    /\ Len(BatchBlockNumbers(find.fs.lowerBound, find.fs.upperBound,
                             find.transfer.hypercoreTime)) > 0

\* C30: a round in which the fetcher returns an empty block list does not
\* end the search and leaves both bounds and blocksSearched as they are; the
\* search goes on with the next round, and ends as not found only when that
\* round was the last of the MAX_ROUNDS.
C30_EmptyRoundKeepsBounds ==
    find.pc = "round" =>
        \A net \in NetOutcomes :
            LET fs == [find.fs EXCEPT !.touched = {}]
                q == FindQuery(find.transfer)
                nums == BatchBlockNumbers(fs.lowerBound, fs.upperBound, q.targetTime)
                fetched == fetchBlocks(find.fetcher, chain, nums, net)
                fs2 == RoundStep(fs, q, chain, find.fetcher, net)
            IN (Len(nums) > 0 /\ fetched.ok /\ Len(fetched.blocks) = 0) =>
                 /\ fs2.lowerBound = fs.lowerBound
                 /\ fs2.upperBound = fs.upperBound
                 /\ fs2.blocksSearched = fs.blocksSearched
                 /\ fs2.round = fs.round + 1
                 /\ fs2.status \in {"run", "notfound"}
                 /\ fs2.status = "run" <=> fs.round + 1 < MAX_ROUNDS
                 /\ fs2.status = "notfound" => fs2.why = "exhausted"

\* The search is in a later round after rounds that returned no block, and
\* the fetcher can return no block again.
C30_Witness ==
    /\ find.pc = "round"
    /\ find.fs.round >= 1
    /\ find.fs.fetchCalls = find.fs.round
    /\ find.fs.blocksSearched = 0
    /\ \E net \in NetOutcomes :
          LET r == fetchBlocks(find.fetcher, chain,
                               BatchBlockNumbers(find.fs.lowerBound, find.fs.upperBound,
                                                 find.transfer.hypercoreTime), net)
          IN r.ok /\ Len(r.blocks) = 0

\* ---------------------------------------------------------------------------
\* One fetchBlocks call of a block fetcher, attempt by attempt: the RPC
\* fetcher retries each chunk, one chunk after the other; the object-store
\* fetcher retries each block, all blocks at once.
\* ---------------------------------------------------------------------------

RETRY_RECURS == 3
MaxUnits == 2

FetchUnits == 1..MaxUnits

\* The messages of the BlockFetchError of one failed attempt.
FetchErrors ==
    {"Timeout", "HTTP 500", "HTTP 502", "HTTP 503", "HTTP 429", "HTTP 404", "rate limited"}

\* Schedule.whileInput of the two retry policies: message.includes(...).
RetryableError(fetcher, message) ==
    IF fetcher = "rpc"
    THEN message \in {"rate limited", "Timeout", "HTTP 500", "HTTP 502", "HTTP 503"}
    ELSE message \in {"Timeout", "HTTP 503", "HTTP 500", "HTTP 429"}

\* A policy that allows RETRY_RECURS attempts in total.
retryPolicyTotal(fetcher, failures, message) ==
    RetryableError(fetcher, message) /\ failures < RETRY_RECURS

\* retryPolicy: after the failure number failures of a unit, Schedule.recurs
\* allows another attempt while fewer than RETRY_RECURS retries were made.
retryPolicy(fetcher, failures, message) ==
    RetryableError(fetcher, message) /\ failures <= RETRY_RECURS

FetchUnchanged == <<transfers, systemTxs, bgPending, chain, queue, queuedHashes,
                    fetcherRef, counters, prod, workers, find, IndexerVars,
                    inserts, anchorLog, program, estimate>>

IdleUnit == [status |-> "idle", attempts |-> 0, last |-> ""]

\* An attempt of a unit (fetchChunk / fetchBlock) ends: with the blocks, or
\* with a BlockFetchError that Effect.retry retries or lets through.
FetchAttempt(u, outcome) ==
    /\ fetchCall.pc = "run"
    /\ fetchCall.units[u].status = "idle"
    /\ \A v \in FetchUnits : fetchCall.units[v].status # "failed"
    /\ fetchCall.fetcher = "rpc" => \A v \in 1..(u - 1) : fetchCall.units[v].status = "ok"
    /\ LET attempts == fetchCall.units[u].attempts + 1
       IN fetchCall' = [fetchCall EXCEPT !.units[u] =
              IF outcome = "ok" THEN [status |-> "ok", attempts |-> attempts, last |-> "ok"]
              ELSE IF retryPolicy(fetchCall.fetcher, attempts, outcome)
              THEN [status |-> "idle", attempts |-> attempts, last |-> outcome]
              ELSE [status |-> "failed", attempts |-> attempts, last |-> outcome]]
    /\ UNCHANGED FetchUnchanged

\* Effect.forEach ends: with all results, or with the first error, which
\* interrupts the units still running.
FetchEnds ==
    /\ fetchCall.pc = "run"
    /\ \/ \E u \in FetchUnits : fetchCall.units[u].status = "failed"
       \/ \A u \in FetchUnits : fetchCall.units[u].status = "ok"
    /\ fetchCall' = [fetchCall EXCEPT !.pc =
           IF \E u \in FetchUnits : fetchCall.units[u].status = "failed" THEN "failed" ELSE "ok"]
    /\ UNCHANGED FetchUnchanged

InitFetch ==
    /\ MatcherOff
    /\ IndexerOff
    /\ transfers = [h \in TransferIds |-> Null]
    /\ inserts = [pc |-> "off"]
    /\ anchorLog = <<>>
    /\ program = ProgramOff
    /\ estimate = EstimateOff
    /\ \E fetcher \in {"rpc", "s3"} :
         fetchCall = [pc |-> "run", fetcher |-> fetcher, units |-> [u \in FetchUnits |-> IdleUnit]]

NextFetch ==
    \/ \E u \in FetchUnits, outcome \in {"ok"} \cup FetchErrors : FetchAttempt(u, outcome)
    \/ FetchEnds

SpecFetch == InitFetch /\ [][NextFetch]_vars

\* The conditions the specification calls transient: timeout, 5xx, rate-limited.
TransientConditions ==
    {"Timeout", "HTTP 500", "HTTP 502", "HTTP 503", "HTTP 429", "rate limited"}

\* C31: for both fetchers, a block fetch whose every attempt fails with a
\* transient condition is attempted at most 3 times in total before the
\* error propagates.
C31_AtMostThreeAttempts ==
    fetchCall.pc # "off" =>
        \A u \in FetchUnits :
            (fetchCall.units[u].status = "failed" /\ fetchCall.units[u].last \in TransientConditions)
                => fetchCall.units[u].attempts <= 3

\* C31 (amended): a unit of a block fetch is attempted at most
\* RETRY_RECURS + 1 times, the first attempt and RETRY_RECURS retries; a unit
\* whose every attempt fails with an error its retry policy matches fails
\* after exactly that many attempts, and an error the policy does not match
\* fails the unit at once.
C31_AtMostOnePlusRecursAttempts ==
    fetchCall.pc # "off" =>
        \A u \in FetchUnits :
            LET unit == fetchCall.units[u]
            IN /\ unit.attempts <= RETRY_RECURS + 1
               /\ unit.status = "failed" =>
                    IF RetryableError(fetchCall.fetcher, unit.last)
                    THEN unit.attempts = RETRY_RECURS + 1
                    ELSE unit.last \in FetchErrors

\* A call of each kind has failed after the last retry of a unit failed with
\* a transient condition.
C31_Witness ==
    /\ fetchCall.pc = "failed"
    /\ \E u \in FetchUnits :
         /\ fetchCall.units[u].status = "failed"
         /\ fetchCall.units[u].last \in TransientConditions
         /\ fetchCall.units[u].attempts = RETRY_RECURS + 1

\* The dedup set with the hashes of newHashes it does not hold appended in
\* their order.
WithNewHashes(seq, newHashes) ==
    seq \o SelectSeq(newHashes, LAMBDA h : h \notin Range(seq))

FindKeepsClearOfStore ==
    /\ (systemTxs' # systemTxs \/ (bgPending' # bgPending /\ bgPending' \subseteq bgPending))
          => find' = find
    /\ (find.pc = "round" /\ find' # find) =>
          \E net \in NetOutcomes :
             LET fs2 == RoundStep([find.fs EXCEPT !.touched = {}], FindQuery(find.transfer),
                                  chain, find.fetcher, net)
             IN /\ find'.fs = fs2
                /\ find'.result = IF fs2.status = "run" THEN Null ELSE SearchOutcome(fs2)

\* C33: Find is not affected by the background store of the blocks it
\* fetched and does not wait for it.  A store that completes or fails leaves
\* the search as it is; what a round makes of the search (result, rounds,
\* blocksSearched) depends on the search, the chain and the network only, be
\* the stores of earlier rounds done, failed or in flight; and the reads of
\* the anchor store (cache probe, bracketing lookup) of the call are over
\* before its first background store starts.
C33_FindIgnoresBackgroundStore ==
    /\ [][FindKeepsClearOfStore]_vars
    /\ []((find.pc \in {"probe", "bracket", "bracket2"} /\ find.call = 1) => bgPending = {})

\* A first call has run a round while the store of an earlier round was
\* still in flight: a store in flight is not one the last round started.
C33_Witness ==
    /\ find.call = 1
    /\ find.fs # Null
    /\ find.fs.round >= 1
    /\ bgPending \ find.fs.touched # {}

(***************************************************************************)
(* estimateBlock (cache/anchors.ts): the block number estimated for a      *)
(* timestamp from the anchors that bracket it.  Times are in milliseconds  *)
(* relative to the seed time.                                              *)
(***************************************************************************)
MaxEstimateTicks == 6
MaxAnchorBlock == 4
MaxAnchorTicks == 3

EstimateTimes == { 250 * k - 2500 : k \in 0..(10 + MaxEstimateTicks) }
EstimateAnchors ==
    { [blockNumber |-> n, blockTimestamp |-> 500 * k] :
        n \in 1..MaxAnchorBlock, k \in 0..MaxAnchorTicks }
EstimateStores == { s \in SUBSET EstimateAnchors : Cardinality(s) <= 2 }

\* Math.round(targetOffset / (timeDelta / blockDelta)): the quotient is taken
\* twice in floating point, so when timeDelta / blockDelta is not an integer
\* an exact half may be rounded to either neighbour.
RoundedOffsets(targetOffset, timeDelta, blockDelta) ==
    LET n == targetOffset * blockDelta
        up == MathRound(n, timeDelta)
        blocks == IF blockDelta < 0 THEN 0 - blockDelta ELSE blockDelta
    IN IF timeDelta % blocks # 0 /\ (2 * n + timeDelta) % (2 * timeDelta) = 0
       THEN {up - 1, up}
       ELSE {up}

\* estimateBlock without the clamp to block 1.
estimateBlockUnclamped(targetTime, before, after) ==
    IF before # Null /\ after # Null /\ before.blockNumber # after.blockNumber
    THEN LET timeDelta == after.blockTimestamp - before.blockTimestamp
             blockDelta == after.blockNumber - before.blockNumber
         IN { [block |-> before.blockNumber + blockOffset,
               msPerBlock |-> [time |-> timeDelta, blocks |-> blockDelta]] :
              blockOffset \in RoundedOffsets(targetTime - before.blockTimestamp,
                                             timeDelta, blockDelta) }
    ELSE LET closest == IF before # Null THEN before ELSE after
             from == IF closest # Null
                     THEN [block |-> closest.blockNumber, time |-> closest.blockTimestamp]
                     ELSE SEED_ANCHOR
         IN { [block |-> from.block + MathRound(targetTime - from.time, DEFAULT_MS_PER_BLOCK),
               msPerBlock |-> [time |-> DEFAULT_MS_PER_BLOCK, blocks |-> 1]] }

\* estimateBlock lines 24-58, after findBracketingAnchors has answered: the
\* results it can return.  The anchors of one answer have different
\* timestamps, so timeDelta is not 0.
estimateBlock(targetTime, before, after) ==
    IF before # Null /\ after # Null /\ before.blockNumber # after.blockNumber
    THEN LET timeDelta == after.blockTimestamp - before.blockTimestamp
             blockDelta == after.blockNumber - before.blockNumber
         IN { [block |-> Max(1, before.blockNumber + blockOffset),
               msPerBlock |-> [time |-> timeDelta, blocks |-> blockDelta]] :
              blockOffset \in RoundedOffsets(targetTime - before.blockTimestamp,
                                             timeDelta, blockDelta) }
    ELSE LET closest == IF before # Null THEN before ELSE after
             from == IF closest # Null
                     THEN [block |-> closest.blockNumber, time |-> closest.blockTimestamp]
                     ELSE SEED_ANCHOR
         IN { [block |-> Max(1, from.block + MathRound(targetTime - from.time,
                                                       DEFAULT_MS_PER_BLOCK)),
               msPerBlock |-> [time |-> DEFAULT_MS_PER_BLOCK, blocks |-> 1]] }

EstimateUnchanged == <<transfers, systemTxs, bgPending, chain, queue, queuedHashes,
                       fetcherRef, counters, prod, workers, find, IndexerVars,
                       inserts, anchorLog, program, fetchCall>>

\* One call of estimateBlock(targetTime) against a store of anchors; the
\* lookup of the anchors fails with a storage error when dbOk is FALSE.
EstimateBlock(targetTime, store, dbOk) ==
    /\ estimate.pc # "off"
    /\ IF dbOk
       THEN \E before \in AnchorsBefore(store, targetTime),
               after \in AnchorsAfter(store, targetTime) :
              \E result \in estimateBlock(targetTime, before, after) :
                estimate' = [pc |-> "done", targetTime |-> targetTime,
                             before |-> before, after |-> after, result |-> result]
       ELSE estimate' = [pc |-> "failed", targetTime |-> targetTime, tag |-> "DbQueryError"]
    /\ UNCHANGED EstimateUnchanged

InitEstimate ==
    /\ MatcherOff
    /\ IndexerOff
    /\ transfers = [h \in TransferIds |-> Null]
    /\ inserts = [pc |-> "off"]
    /\ anchorLog = <<>>
    /\ program = ProgramOff
    /\ fetchCall = FetchOff
    /\ estimate = [pc |-> "idle"]

NextEstimate ==
    \E targetTime \in EstimateTimes, store \in EstimateStores, dbOk \in BOOLEAN :
        EstimateBlock(targetTime, store, dbOk)

SpecEstimate == InitEstimate /\ [][NextEstimate]_vars

\* The estimate from one anchor at DEFAULT_MS_PER_BLOCK per block.
ExtrapolatedFrom(block, time, targetTime) ==
    Max(1, block + MathRound(targetTime - time, DEFAULT_MS_PER_BLOCK))

\* block lies on the line through the two anchors at targetTime, to within
\* half a block.
OnTheLine(block, before, after, targetTime) ==
    LET timeDelta == after.blockTimestamp - before.blockTimestamp
        blockDelta == after.blockNumber - before.blockNumber
        off == 2 * ((block - before.blockNumber) * timeDelta
                    - (targetTime - before.blockTimestamp) * blockDelta)
    IN (0 - timeDelta) <= off /\ off <= timeDelta

\* C34: for every target time and every pair of bracketing anchors with
\* before.blockTimestamp <= t < after.blockTimestamp (each possibly absent),
\* estimateBlock returns a block number >= 1; with no anchors it is
\* max(1, 1 + round((t - seedTime) / 1000)); with one anchor, or with before
\* and after naming the same block, it is extrapolated from that anchor at
\* 1000 ms per block; with two anchors on different blocks it is interpolated
\* linearly between them (and clamped to 1).
C34_EstimateBlock ==
    estimate.pc = "done" =>
        LET t == estimate.targetTime
            before == estimate.before
            after == estimate.after
            block == estimate.result.block
        IN /\ before # Null => before.blockTimestamp <= t
           /\ after # Null => t < after.blockTimestamp
           /\ block >= 1
           /\ (before = Null /\ after = Null)
                => block = Max(1, 1 + MathRound(t - SEED_ANCHOR.time, 1000))
           /\ (before # Null /\ after = Null)
                => block = ExtrapolatedFrom(before.blockNumber, before.blockTimestamp, t)
           /\ (before = Null /\ after # Null)
                => block = ExtrapolatedFrom(after.blockNumber, after.blockTimestamp, t)
           /\ (before # Null /\ after # Null)
                => IF before.blockNumber = after.blockNumber
                   THEN block = ExtrapolatedFrom(before.blockNumber, before.blockTimestamp, t)
                   ELSE \E line \in (0 - 4 * MaxAnchorBlock)..(4 * MaxAnchorBlock) :
                          /\ OnTheLine(line, before, after, t)
                          /\ block = Max(1, line)

\* An estimate strictly between two anchors on different blocks.
C34_Witness ==
    /\ estimate.pc = "done"
    /\ estimate.before # Null
    /\ estimate.after # Null
    /\ estimate.before.blockNumber + 1 < estimate.after.blockNumber
    /\ estimate.before.blockNumber < estimate.result.block
    /\ estimate.result.block < estimate.after.blockNumber

\* C35: a transfer is marked FAILED only after an actual search: the Find
\* call whose NotFound made a consumer mark it fetched and scanned at least
\* one block (blocksSearched >= 1, the number kept in failReason).
C35_FailedOnlyAfterSearch ==
    \A h \in TransferIds :
        (Stored(h) /\ transfers[h].status = "failed")
            => transfers[h].failReason.val >= 1

\* C36: the consumer pool keeps its size: every one of the
\* EVM_MATCHER_CONCURRENCY workers is either taking from the queue or
\* processing a transfer; no outcome of processing (matched, failed, error,
\* timeout, a persistence failure while marking the transfer) ends a worker.
C36_PoolKeepsItsSize ==
    \A w \in Workers : workers[w].pc \in {"take", "process"}

\* C37: a storage error of the active-address query in one reconciliation
\* pass stops neither the indexer controller nor a running indexer worker:
\* the controller fiber does not end with the error (later passes still
\* run), and no worker it started is interrupted because of it.
C37_QueryErrorStopsNothing ==
    /\ program.fibers["indexer"] # "failed"
    /\ program.cause # "serviceFailed"

\* The transfers of the ledger of an address that the indexer stores: spot
\* transfers to a system address.
Qualifying(a) ==
    { Ledger(a)[i] : i \in { j \in 1..Len(Ledger(a)) :
                               /\ Ledger(a)[j].type = "spotTransfer"
                               /\ isSystemAddress(Ledger(a)[j].destination) } }

\* A step that raises the persisted cursor of an address is the step of its
\* worker on a fetched page, to the largest time of the page and together
\* with the stored transfers of the page; a worker that ends on a page leaves
\* the persisted cursor as it was.
CursorFollowsInsert ==
    \A a \in WatchedSet :
        /\ (/\ watched[a] # Null
            /\ watched'[a] # Null
            /\ watched'[a].lastIndexedTime # watched[a].lastIndexedTime
            /\ watched'[a].lastIndexedTime # 0)
              => /\ ixWorkers[a].pc = "page"
                 /\ watched'[a].lastIndexedTime = MaxUpdateTime(ixWorkers[a].updates)
                 /\ \A h \in OutgoingHashes(ixWorkers[a].updates) : transfers'[h] # Null
        /\ (ixWorkers[a].pc = "page" /\ ixWorkers'[a] = DeadFiber)
              => watched'[a] = watched[a]

\* C38: an indexer worker persists a cursor value only after the insert of
\* the page that produced it has succeeded; when the insert fails the
\* persisted lastIndexedTime is unchanged; so the persisted cursor of an
\* address never lies beyond a qualifying transfer that is not stored.
C38_CursorOnlyAfterInsert ==
    /\ [][CursorFollowsInsert]_vars
    /\ [](\A a \in WatchedSet :
             watched[a] # Null =>
                 \A u \in Qualifying(a) :
                     u.time < watched[a].lastIndexedTime => transfers[u.hash] # Null)

\* A worker has stored the transfers of its pages and persisted the cursor
\* of the last one.
C38_Witness ==
    \E a \in WatchedSet :
        /\ watched[a] # Null
        /\ ixWorkers[a].pc \in {"wait", "delay"}
        /\ ixWorkers[a].cursor = watched[a].lastIndexedTime
        /\ \E u \in Qualifying(a) : u.time < watched[a].lastIndexedTime
        /\ \A u \in Qualifying(a) : u.time <= watched[a].lastIndexedTime => transfers[u.hash] # Null

\* The Ref.update the producer is about to make lets the dedup set grow
\* beyond DEDUP_LIMIT (and trims it).
DedupExceeds ==
    /\ prod.pc = "offer"
    /\ prod.pending = <<>>
    /\ Len(WithNewHashes(queuedHashes, prod.newHashes)) > DEDUP_LIMIT

\* The matcher pool in the executions in which the dedup set never exceeds
\* DEDUP_LIMIT entries.
NextWithinLimit ==
    \/ \E batch \in IndexerPages : IndexPage(batch)
    \/ \E statsOk \in BOOLEAN : ProducerCheck(statsOk)
    \/ ProducerSkip
    \/ ProducerSleep
    \/ \E readOk \in BOOLEAN : ProducerFetch(readOk)
    \/ ProducerSnapshot
    \/ ProducerOffer
    \/ ~DedupExceeds /\ ProducerCommit
    \/ \E w \in Workers : WorkerTake(w)
    \/ \E w \in Workers : WorkerProcess(w, BOOLEAN)
    \/ \E batch \in bgPending : BackgroundStore(batch)
    \/ \E batch \in bgPending : BackgroundStoreFails(batch)

SpecWithinLimit == Init /\ [][NextWithinLimit]_vars

\* The transfers that are queued or in flight (dequeued, not yet finished).
QueuedOrInFlight ==
    queue \o SelectSeq([w \in Workers |-> workers[w].transfer],
                       LAMBDA h : \E w \in Workers : workers[w].pc = "process" /\ workers[w].transfer = h)

====
